---------------------------- MODULE Spec2Model ----------------------------
(***************************************************************************)
(* Model of the auteur mixer node's data plane.                            *)
(*                                                                         *)
(* Part 1: StreamProducer / StreamConsumers                                *)
(*         (server/src/utils/stream_producer.rs).                          *)
(*                                                                         *)
(* One producer wraps one appsink.  Three kinds of threads touch it:       *)
(*   - callers of add_consumer / remove_consumer / forward (the actors),   *)
(*   - the appsink's streaming thread, which runs the new_sample and eos   *)
(*     callbacks one at a time,                                            *)
(*   - whichever thread delivers an upstream event to a pad probe.         *)
(* Everything a function does while it holds the StreamConsumers mutex is  *)
(* one atomic action.  new_sample drops the mutex before it pushes, so     *)
(* each push_sample is an action of its own and other threads interleave   *)
(* with the pushes.                                                        *)
(***************************************************************************)
EXTENDS Integers, Sequences, FiniteSets, TLC

(* ------------------------------ bounds -------------------------------- *)

\* Number of distinct link ids callers use.
NumIds == 2
\* Number of appsrc elements callers ever create.
MaxSources == 2
\* Number of samples the appsink ever hands out.
MaxSamples == 2
\* Number of Latency events that ever reach the appsink's sink pad.
MaxLatencyEvents == 1

Ids == 1..NumIds
Sources == 1..MaxSources
None == 0

(* ------------------------------- state -------------------------------- *)

VARIABLES
    \* struct StreamConsumers
    current_latency,    \* Option<ClockTime>: None, or the value of the n-th Latency event
    latency_updated,
    consumers,          \* HashMap: link id -> StreamConsumer
    discard,
    \* pad probes installed on consumers' src pads
    probes,
    \* the streaming thread: position and locals of the running callback
    pc,                 \* "idle" | "pushing" | "eos" | "ended"
    sample,             \* the sample pulled by the running new_sample
    latency,            \* new_sample's local `latency`
    current_consumers,  \* the SmallVec snapshot, what is left of it to visit
    ret,                \* what the last new_sample returned
    \* what the elements around the producer have seen
    nextSrc,            \* appsrcs created so far
    sampleNo,           \* samples pulled so far
    numLatency,         \* Latency events seen so far
    pushed,             \* appsrc -> samples passed to push_sample, in call order
    latencySet,         \* appsrc -> latencies passed to set_latency, in call order
    eosSent,            \* appsrcs that had end_of_stream called
    dlog,               \* events of the delivery in progress, in order
    \* history of the calls made on the producer
    forwardAt,          \* -1, or sampleNo when forward() was first called
    attachedAt,         \* appsrc -> -1, or sampleNo when it was inserted
    detachedAt,         \* appsrc -> -1, or sampleNo when it was removed
    rejectedAt          \* appsrc -> -1, or sampleNo when add_consumer refused it

vars == << current_latency, latency_updated, consumers, discard, probes,
           pc, sample, latency, current_consumers, ret,
           nextSrc, sampleNo, numLatency, pushed, latencySet, eosSent, dlog,
           forwardAt, attachedAt, detachedAt, rejectedAt >>

producerVars == << current_latency, latency_updated, consumers, discard, probes >>
threadVars == << pc, sample, latency, current_consumers, ret >>
sinkVars == << pushed, latencySet, eosSent, dlog >>
histVars == << forwardAt, attachedAt, detachedAt, rejectedAt >>

(* ---------------------------- mixer state ----------------------------- *)

VARIABLES
    state,                \* state_machine.state
    settings,             \* Mixer.settings: name -> Setting
    consumer_slots,       \* Mixer.consumer_slots: link id -> ConsumerSlot
    video_pads,           \* compositor request pads: pad -> properties
    audio_pads,           \* audiomixer request pads: pad -> properties
    nextPad,              \* number of pads requested so far
    upstream,             \* upstream node -> consumer maps of its producers
    video_mixing_state,   \* VideoMixingState
    audio_mixing_state,   \* AudioMixingState
    caps,                 \* caps of the output video capsfilter
    base_plate_pad,       \* properties of the compositor's sink_0
    timeout,              \* fallback timeout captured by the video callback
    reply,                \* the answer to the last request handled
    numPoints,            \* control points accepted so far
    actor,                \* the actor's context: "Running" | "Stopping" | "Stopped"
    schedule,             \* state_machine: cue_time, end_time, pending timer
    registry,             \* messages sent to the NodeManager, in order
    output,               \* Mixer.video_producer, audio_producer: their discard flags
    holder,               \* mutex -> the thread whose MutexGuard is alive, or "free"
    running               \* thread -> the lock and unlock steps left of what it runs

mixerVars == << state, settings, consumer_slots, video_pads, audio_pads,
                nextPad, upstream, video_mixing_state, audio_mixing_state, caps,
                base_plate_pad, timeout, reply, numPoints,
                actor, schedule, registry, output, holder, running >>

lifeVars == << actor, schedule, registry, output >>

lockVars == << holder, running >>

allVars == << vars, mixerVars >>

(* ------------------------------ helpers ------------------------------- *)

\* A HashMap's iteration order is unspecified: any ordering of its keys.
Orders(S) ==
    { f \in [1..Cardinality(S) -> S] : \A i, j \in 1..Cardinality(S) : f[i] = f[j] => i = j }

Range(f) == { f[x] : x \in DOMAIN f }

MapRemove(m, k) == [ x \in DOMAIN m \ {k} |-> m[x] ]

MapInsert(m, k, v) == [ x \in DOMAIN m \cup {k} |-> IF x = k THEN v ELSE m[x] ]

Count(seq, x) == Cardinality({ i \in 1..Len(seq) : seq[i] = x })

Last(seq) == seq[Len(seq)]

(* ------------------------------- Init --------------------------------- *)

\* StreamProducer::from: the StreamConsumers record as constructed.
ProducerInit ==
    /\ current_latency = None
    /\ latency_updated = FALSE
    /\ consumers = << >>
    /\ discard = TRUE
    /\ probes = {}
    /\ pc = "idle"
    /\ sample = 0
    /\ latency = None
    /\ current_consumers = << >>
    /\ ret = "none"
    /\ nextSrc = 0
    /\ sampleNo = 0
    /\ numLatency = 0
    /\ pushed = [s \in Sources |-> << >>]
    /\ latencySet = [s \in Sources |-> << >>]
    /\ eosSent = {}
    /\ dlog = << >>
    /\ forwardAt = -1
    /\ attachedAt = [s \in Sources |-> -1]
    /\ detachedAt = [s \in Sources |-> -1]
    /\ rejectedAt = [s \in Sources |-> -1]

(* ------------------- add_consumer / remove_consumer ------------------- *)

\* StreamConsumer::new: the record stored for a freshly attached appsrc.
NewStreamConsumer(appsrc) ==
    [ appsrc |-> appsrc,
      fku_probe_id |-> TRUE,
      forwarded_latency |-> FALSE,
      first_buffer |-> TRUE ]

\* The early return of add_consumer.
AlreadyAdded(cs, id) == id \in DOMAIN cs

\* add_consumer without its early return: the binding is overwritten.
AddConsumerMap_Overwrite(cs, appsrc, id) ==
    MapInsert(cs, id, NewStreamConsumer(appsrc))

\* The consumer map add_consumer leaves behind.
AddConsumerMap(cs, appsrc, id) ==
    IF AlreadyAdded(cs, id)
    THEN cs
    ELSE MapInsert(cs, id, NewStreamConsumer(appsrc))

\* add_consumer(consumer, consumer_id).  The caller passes an appsrc it has
\* just created for this link (Mixer::connect makes two per slot), so an
\* appsrc is handed to add_consumer once.
AddConsumer(id) ==
    /\ nextSrc < MaxSources
    /\ LET appsrc == nextSrc + 1
           hit == AlreadyAdded(consumers, id)
       IN  /\ nextSrc' = appsrc
           /\ consumers' = AddConsumerMap(consumers, appsrc, id)
           /\ probes' = IF hit THEN probes ELSE probes \cup {appsrc}
           /\ rejectedAt' = IF hit THEN [rejectedAt EXCEPT ![appsrc] = sampleNo]
                            ELSE rejectedAt
           /\ attachedAt' = IF hit THEN attachedAt
                            ELSE [attachedAt EXCEPT ![appsrc] = sampleNo]
    /\ UNCHANGED << current_latency, latency_updated, discard >>
    /\ UNCHANGED threadVars
    /\ UNCHANGED sinkVars
    /\ UNCHANGED << sampleNo, numLatency, forwardAt, detachedAt >>
    /\ UNCHANGED mixerVars

\* remove_consumer that leaves the map as it is.
RemoveConsumerMap_Keep(cs, id) == cs

\* remove_consumer that keeps the named consumer and drops the others.
RemoveConsumerMap_Retain(cs, id) == [ x \in DOMAIN cs \cap {id} |-> cs[x] ]

\* The consumer map remove_consumer leaves behind.
RemoveConsumerMap(cs, id) ==
    IF id \in DOMAIN cs THEN MapRemove(cs, id) ELSE cs

\* impl Drop for StreamConsumer: the probe goes with the consumer.
DropStreamConsumer(ps, c) ==
    IF c.fku_probe_id THEN ps \ {c.appsrc} ELSE ps

\* remove_consumer(consumer_id).
RemoveConsumer(id) ==
    /\ consumers' = RemoveConsumerMap(consumers, id)
    /\ IF id \in DOMAIN consumers
       THEN /\ probes' = DropStreamConsumer(probes, consumers[id])
            /\ detachedAt' = [detachedAt EXCEPT ![consumers[id].appsrc] = sampleNo]
       ELSE /\ probes' = probes
            /\ detachedAt' = detachedAt
    /\ UNCHANGED << current_latency, latency_updated, discard >>
    /\ UNCHANGED threadVars
    /\ UNCHANGED sinkVars
    /\ UNCHANGED << nextSrc, sampleNo, numLatency, forwardAt, attachedAt, rejectedAt >>
    /\ UNCHANGED mixerVars

(* ------------------------------ forward ------------------------------- *)

\* forward() that flips the flag.
ForwardDiscard_Toggle(d) == ~d

\* The value forward() stores in `discard`.
ForwardDiscard(d) == FALSE

\* forward().
Forward ==
    /\ discard' = ForwardDiscard(discard)
    /\ forwardAt' = IF forwardAt = -1 THEN sampleNo ELSE forwardAt
    /\ UNCHANGED << current_latency, latency_updated, consumers, probes >>
    /\ UNCHANGED threadVars
    /\ UNCHANGED sinkVars
    /\ UNCHANGED << nextSrc, sampleNo, numLatency, attachedAt, detachedAt, rejectedAt >>
    /\ UNCHANGED mixerVars

(* ----------------------- the sink's latency probe --------------------- *)

\* The upstream-event probe on the appsink's sink pad, on a Latency event.
\* The n-th event carries the value n: the code never compares latencies,
\* and distinct values tell the updates apart.
LatencyEvent ==
    /\ numLatency < MaxLatencyEvents
    /\ numLatency' = numLatency + 1
    /\ current_latency' = numLatency + 1
    /\ latency_updated' = TRUE
    /\ UNCHANGED << consumers, discard, probes >>
    /\ UNCHANGED threadVars
    /\ UNCHANGED sinkVars
    /\ UNCHANGED << nextSrc, sampleNo >>
    /\ UNCHANGED histVars
    /\ UNCHANGED mixerVars

\* The probe add_consumer installs on the consumer's src pad: an upstream
\* force-key-unit event is sent on to the appsink, whatever the producer is
\* doing.  Nothing of the producer's state is read or written.
ForwardKeyUnit(appsrc) ==
    /\ appsrc \in probes
    /\ UNCHANGED lockVars
    /\ UNCHANGED vars
    /\ UNCHANGED mixerVars

(* ------------------------- new_sample callback ------------------------ *)

\* new_sample without the discard check.
ShouldDiscard_Never(d) == FALSE

\* `if consumers.discard { return Ok }`.
ShouldDiscard(d) == d

\* set_latency only when latency_updated was set: the compare_exchange on
\* forwarded_latency is left out.
ForwardsLatency_OnlyUpdated(c, lat, updated) ==
    lat # None /\ updated

\* Whether the closure calls set_latency on consumer c: a latency is known,
\* and the compare_exchange on forwarded_latency succeeds or latency_updated
\* was set.
ForwardsLatency(c, lat, updated) ==
    lat # None /\ (~c.forwarded_latency \/ updated)

\* A force-key-unit event for every consumer on its first buffer:
\* requested_keyframe is not consulted.
RequestsKeyframe_EveryFirst(c, requested_keyframe) ==
    c.first_buffer

\* Whether the closure sends a force-key-unit event on visiting consumer c:
\* the compare_exchange on first_buffer succeeds and none was sent yet.
RequestsKeyframe(c, requested_keyframe) ==
    c.first_buffer /\ ~requested_keyframe

\* Consumer c after the two compare_exchange calls.
VisitedConsumer(c, lat) ==
    [ c EXCEPT !.forwarded_latency = IF lat # None THEN TRUE ELSE @,
               !.first_buffer = FALSE ]

\* UpstreamForceKeyUnitEvent::builder().all_headers(true), sent to the appsink
\* while visiting `appsrc`.
FkuEvent(appsrc) == [ e |-> "fku", appsrc |-> appsrc, all_headers |-> TRUE ]

\* consumer.push_sample(&sample) and its result.
PushEvent(appsrc, ok) == [ e |-> "push", appsrc |-> appsrc, ok |-> ok ]

\* The closure, leaving a consumer out of the snapshot on its first buffer.
VisitConsumer_SkipFirst(acc, id, lat, updated) ==
    LET c == acc.consumers[id]
        fku == RequestsKeyframe(c, acc.requested_keyframe)
    IN  [ consumers |-> [acc.consumers EXCEPT ![id] = VisitedConsumer(c, lat)],
          latencySet |-> IF ForwardsLatency(c, lat, updated)
                         THEN [acc.latencySet EXCEPT ![c.appsrc] = Append(@, lat)]
                         ELSE acc.latencySet,
          dlog |-> IF fku THEN Append(acc.dlog, FkuEvent(c.appsrc)) ELSE acc.dlog,
          requested_keyframe |-> acc.requested_keyframe \/ fku,
          current_consumers |-> IF c.first_buffer
                                THEN acc.current_consumers
                                ELSE Append(acc.current_consumers, c.appsrc) ]

\* One run of the closure passed to .map(): the consumer under `id`.
VisitConsumer(acc, id, lat, updated) ==
    LET c == acc.consumers[id]
        fku == RequestsKeyframe(c, acc.requested_keyframe)
    IN  [ consumers |-> [acc.consumers EXCEPT ![id] = VisitedConsumer(c, lat)],
          latencySet |-> IF ForwardsLatency(c, lat, updated)
                         THEN [acc.latencySet EXCEPT ![c.appsrc] = Append(@, lat)]
                         ELSE acc.latencySet,
          dlog |-> IF fku THEN Append(acc.dlog, FkuEvent(c.appsrc)) ELSE acc.dlog,
          requested_keyframe |-> acc.requested_keyframe \/ fku,
          current_consumers |-> Append(acc.current_consumers, c.appsrc) ]

\* consumers.values().map(..).collect(), visiting the map in `order`.
RECURSIVE CollectConsumers(_, _, _, _)
CollectConsumers(acc, order, lat, updated) ==
    IF order = << >>
    THEN acc
    ELSE CollectConsumers(VisitConsumer(acc, Head(order), lat, updated),
                          Tail(order), lat, updated)

\* new_sample, pull_sample fails: return Err(Flushing).  pull_sample fails
\* once the appsink is flushing or shut down; upstream stops on Flushing.
NewSamplePullFailed ==
    /\ pc = "idle"
    /\ ret' = "Flushing"
    /\ pc' = "ended"
    /\ UNCHANGED producerVars
    /\ UNCHANGED << sample, latency, current_consumers >>
    /\ UNCHANGED sinkVars
    /\ UNCHANGED << nextSrc, sampleNo, numLatency >>
    /\ UNCHANGED histVars
    /\ UNCHANGED mixerVars

\* new_sample while discarding: the sample is pulled and dropped.
NewSampleDiscard ==
    /\ pc = "idle"
    /\ sampleNo < MaxSamples
    /\ ShouldDiscard(discard)
    /\ sampleNo' = sampleNo + 1
    /\ ret' = "Ok"
    /\ UNCHANGED producerVars
    /\ UNCHANGED << pc, sample, latency, current_consumers >>
    /\ UNCHANGED sinkVars
    /\ UNCHANGED << nextSrc, numLatency >>
    /\ UNCHANGED histVars
    /\ UNCHANGED mixerVars

\* new_sample from taking the mutex to drop(consumers): latency and keyframe
\* handling and the snapshot of the appsrcs.
NewSampleDispatch ==
    /\ pc = "idle"
    /\ sampleNo < MaxSamples
    /\ ~ShouldDiscard(discard)
    /\ sampleNo' = sampleNo + 1
    /\ sample' = sampleNo + 1
    /\ latency' = current_latency
    /\ latency_updated' = FALSE
    /\ \E order \in Orders(DOMAIN consumers) :
         LET acc == CollectConsumers(
                        [ consumers |-> consumers,
                          latencySet |-> latencySet,
                          dlog |-> << >>,
                          requested_keyframe |-> FALSE,
                          current_consumers |-> << >> ],
                        order, current_latency, latency_updated)
         IN  /\ consumers' = acc.consumers
             /\ latencySet' = acc.latencySet
             /\ dlog' = acc.dlog
             /\ current_consumers' = acc.current_consumers
    /\ pc' = "pushing"
    /\ UNCHANGED << current_latency, discard, probes >>
    /\ UNCHANGED << ret, pushed, eosSent >>
    /\ UNCHANGED << nextSrc, numLatency >>
    /\ UNCHANGED histVars
    /\ UNCHANGED mixerVars

\* The loop pushing again to a consumer whose push failed.
RestAfterPush_Retry(rest, ok) == IF ok THEN Tail(rest) ELSE rest

\* The loop given up at the first failed push.
RestAfterPush_Abort(rest, ok) == IF ok THEN Tail(rest) ELSE << >>

\* What is left of the fan-out loop after a push that returned `ok`.
RestAfterPush(rest, ok) == Tail(rest)

\* One turn of `for consumer in current_consumers`: push_sample, which the
\* appsrc may refuse.
PushSample ==
    /\ pc = "pushing"
    /\ current_consumers # << >>
    /\ \E ok \in BOOLEAN :
         LET appsrc == Head(current_consumers)
         IN  /\ pushed' = [pushed EXCEPT ![appsrc] = Append(@, sample)]
             /\ dlog' = Append(dlog, PushEvent(appsrc, ok))
             /\ current_consumers' = RestAfterPush(current_consumers, ok)
    /\ UNCHANGED producerVars
    /\ UNCHANGED << pc, sample, latency, ret >>
    /\ UNCHANGED << latencySet, eosSent >>
    /\ UNCHANGED << nextSrc, sampleNo, numLatency >>
    /\ UNCHANGED histVars
    /\ UNCHANGED mixerVars

\* new_sample after the loop: return Ok(FlowSuccess::Ok).
NewSampleReturn ==
    /\ pc = "pushing"
    /\ current_consumers = << >>
    /\ pc' = "idle"
    /\ ret' = "Ok"
    /\ sample' = 0
    /\ latency' = None
    /\ dlog' = << >>
    /\ UNCHANGED producerVars
    /\ UNCHANGED << current_consumers >>
    /\ UNCHANGED << pushed, latencySet, eosSent >>
    /\ UNCHANGED << nextSrc, sampleNo, numLatency >>
    /\ UNCHANGED histVars
    /\ UNCHANGED mixerVars

(* ----------------------------- eos callback --------------------------- *)

\* eos: the snapshot of the appsrcs, taken under the mutex.
EosSnapshot ==
    /\ pc = "idle"
    /\ \E order \in Orders(DOMAIN consumers) :
         current_consumers' = [ i \in DOMAIN order |-> consumers[order[i]].appsrc ]
    /\ pc' = "eos"
    /\ UNCHANGED producerVars
    /\ UNCHANGED << sample, latency, ret >>
    /\ UNCHANGED sinkVars
    /\ UNCHANGED << nextSrc, sampleNo, numLatency >>
    /\ UNCHANGED histVars
    /\ UNCHANGED mixerVars

\* eos: one turn of the loop calling end_of_stream.
EosSignal ==
    /\ pc = "eos"
    /\ current_consumers # << >>
    /\ eosSent' = eosSent \cup {Head(current_consumers)}
    /\ current_consumers' = Tail(current_consumers)
    /\ UNCHANGED producerVars
    /\ UNCHANGED << pc, sample, latency, ret >>
    /\ UNCHANGED << pushed, latencySet, dlog >>
    /\ UNCHANGED << nextSrc, sampleNo, numLatency >>
    /\ UNCHANGED histVars
    /\ UNCHANGED mixerVars

\* eos: the callback returns.  The appsink hands out nothing after EOS.
EosReturn ==
    /\ pc = "eos"
    /\ current_consumers = << >>
    /\ pc' = "ended"
    /\ UNCHANGED producerVars
    /\ UNCHANGED << sample, latency, current_consumers, ret >>
    /\ UNCHANGED sinkVars
    /\ UNCHANGED << nextSrc, sampleNo, numLatency >>
    /\ UNCHANGED histVars
    /\ UNCHANGED mixerVars

(* ====================================================================== *)
(*                                Mixer                                   *)
(* ====================================================================== *)

(* --------------------------- mixer bounds ----------------------------- *)

\* Number of sink pads ever requested from each mixer element.
MaxPads == 2
\* Number of control points ever accepted by the mixer.
MaxPoints == 1
\* Largest pts of a samples-selected callback, in milliseconds.
MaxPts == 2
\* Number of control points ever accepted where controllers are told apart.
MaxKeyPoints == 2

\* The link ids the node manager uses for slots.
SlotIds == { "a", "b" }
\* The upstream nodes slots are connected to.
Nodes == { "source" }
\* The control point ids requests carry.
PointIds == { "X" }
\* Link ids of which one begins with the other.
KeySlotIds == { "a", "ax" }

\* gst::CLOCK_TIME_NONE.
CLOCK_TIME_NONE == -1

\* Defaults of create_settings().
DefaultWidth == 1920
DefaultHeight == 1920
DefaultSampleRate == 48000
DefaultFallbackTimeout == 500
MaxI32 == 2147483647

(* ----------------------------- lifecycle ------------------------------ *)

\* The id the mixer was created with.
MixerId == "mixer"

\* The cue times requests carry: 0 is not in the future, 1 is.
CueTimes == { 0, 1 }
\* No cue time, no end time.
NoTime == -1
\* The end times requests carry: none, or one later than every cue time.
EndTimes == { NoTime, 2 }
\* The texts of the ErrorMessages the pipeline sends to the actor.
ErrorTexts == { "bus" }

\* A cue time that has been reached when the request is handled.
Due(cue_time) == cue_time = 0

\* StateMachine::default().
NewStateMachine == [ cue_time |-> NoTime, end_time |-> NoTime, pending |-> FALSE ]

\* The handles of the mixer's output producers.
VideoProducer == "video"
AudioProducer == "audio"

(* ------------------------------ values -------------------------------- *)

\* serde_json values carried by requests: numbers and strings.
Num(n) == [ type |-> "number", v |-> n ]
Str == [ type |-> "string", v |-> 0 ]
Values == { Num(0), Num(1), Str }

(* ----------------------------- settings ------------------------------- *)

\* SettingSpec::I32 settings of create_settings().
I32Setting(name, min, max, current, controllable) ==
    [ name |-> name, type |-> "number", min |-> min, max |-> max,
      current |-> current, controllable |-> controllable ]

\* create_settings().
create_settings ==
    [ n \in { "width", "height", "sample-rate", "fallback-image", "fallback-timeout" } |->
        CASE n = "width" -> I32Setting("width", 1, MaxI32, DefaultWidth, TRUE)
          [] n = "height" -> I32Setting("height", 1, MaxI32, DefaultHeight, TRUE)
          [] n = "sample-rate" -> I32Setting("height", 1, MaxI32, DefaultSampleRate, FALSE)
          [] n = "fallback-image" ->
                [ name |-> "fallback-image", type |-> "string", min |-> 0, max |-> 0,
                  current |-> 0, controllable |-> FALSE ]
          [] n = "fallback-timeout" ->
                I32Setting("fallback-timeout", 0, MaxI32, DefaultFallbackTimeout, TRUE) ]

\* SettingController::validate_value: the type agrees and a number is in range.
SettingValidateValue(setting, value) ==
    /\ value.type = setting.type
    /\ setting.type = "number" => (setting.min <= value.v /\ value.v <= setting.max)

\* SettingController::set_from_value.
SetFromValue(setting, value) == [ setting EXCEPT !.current = value.v ]

\* Mixer.setting(name).as_i32().
SettingI32(name) == settings[name].current

(* ------------------------------ mutexes ------------------------------- *)

\* The keys of Mixer.settings, each an Arc<Mutex<Setting>>.
SettingNames == { "width", "height", "sample-rate", "fallback-image", "fallback-timeout" }

\* Mixer.video_mixing_state and Mixer.audio_mixing_state, each an Arc<Mutex<..>>.
VideoMutex == "video_mixing_state"
AudioMutex == "audio_mixing_state"
MixingMutexes == { VideoMutex, AudioMutex }

Mutexes == MixingMutexes \cup SettingNames

\* The actor's thread and the streaming threads of the two aggregators,
\* which run their samples-selected callbacks.
Threads == { "actor", "compositor", "audiomixer" }

(* ------------------------------- Init --------------------------------- *)

\* The mixing states Mixer::new constructs.
NewVideoMixingState ==
    [ base_plate_timeout |-> CLOCK_TIME_NONE,
      showing_base_plate |-> FALSE,
      slot_controllers |-> << >>,
      mixer_controllers |-> << >>,
      last_pts |-> CLOCK_TIME_NONE,
      capsfilter |-> FALSE ]

NewAudioMixingState ==
    [ slot_controllers |-> << >>,
      last_pts |-> CLOCK_TIME_NONE ]

\* A config loop that sets the values without validating them.
RECURSIVE ApplyMixerConfig_Unchecked(_, _)
ApplyMixerConfig_Unchecked(config, sets) ==
    IF config = << >>
    THEN [ ok |-> TRUE, settings |-> sets ]
    ELSE LET key == Head(config)[1]
             value == Head(config)[2]
         IN  IF key \notin DOMAIN sets
             THEN [ ok |-> FALSE, settings |-> sets ]
             ELSE ApplyMixerConfig_Unchecked(Tail(config),
                                             [ sets EXCEPT ![key] = SetFromValue(@, value) ])

\* The config loop of Mixer::new over the entries of `config`, in the order
\* the HashMap yields them.
RECURSIVE ApplyMixerConfig(_, _)
ApplyMixerConfig(config, sets) ==
    IF config = << >>
    THEN [ ok |-> TRUE, settings |-> sets ]
    ELSE LET key == Head(config)[1]
             value == Head(config)[2]
         IN  IF key \notin DOMAIN sets
             THEN [ ok |-> FALSE, settings |-> sets ]
             ELSE IF ~SettingValidateValue(sets[key], value)
                  THEN [ ok |-> FALSE, settings |-> sets ]
                  ELSE ApplyMixerConfig(Tail(config),
                                        [ sets EXCEPT ![key] = SetFromValue(@, value) ])

\* The Mixer that Mixer::new returns with these settings, once its actor runs.
Constructed(sets) ==
    /\ state = "Initial"
    /\ settings = sets
    /\ consumer_slots = << >>
    /\ video_pads = << >>
    /\ audio_pads = << >>
    /\ nextPad = 0
    /\ upstream = [ n \in Nodes |-> [ video |-> << >>, audio |-> << >> ] ]
    /\ video_mixing_state = NewVideoMixingState
    /\ audio_mixing_state = NewAudioMixingState
    /\ caps = [ width |-> 0, height |-> 0 ]
    /\ base_plate_pad = [ alpha |-> 1, width |-> 0, height |-> 0 ]
    /\ timeout = CLOCK_TIME_NONE
    /\ numPoints = 0
    /\ schedule = NewStateMachine
    /\ registry = << >>
    /\ output = [ video |-> TRUE, audio |-> TRUE ]
    /\ holder = [ m \in Mutexes |-> "free" ]
    /\ running = [ t \in Threads |-> << >> ]

\* Mixer::new(id, config): a mixer, or an error and no mixer.
MixerNew(config) ==
    LET made == ApplyMixerConfig(config, create_settings)
    IN  IF made.ok
        THEN /\ Constructed(made.settings)
             /\ actor = "Running"
             /\ reply = << "none", "none" >>
        ELSE /\ Constructed(create_settings)
             /\ actor = "None"
             /\ reply = << "new", "Err" >>

\* The configs a mixer is created with: up to two entries, as the HashMap
\* yields them, with values below and inside the ranges (the ranges end at
\* the largest integer there is).
MixerConfigEntries ==
    { << k, v >> : k \in { "width", "fallback-timeout", "depth" },
                   v \in { Num(-1), Num(0), Num(1), Str } }

MixerConfigs ==
    { << >> } \cup { << e >> : e \in MixerConfigEntries }
        \cup { c \in { << e, f >> : e \in MixerConfigEntries, f \in MixerConfigEntries } :
                 c[1][1] # c[2][1] }

\* Mixer::new with no config, or with a config that sets fallback-timeout.
MixerInit ==
    \E t \in { DefaultFallbackTimeout, 0, 1 } :
        MixerNew(<< << "fallback-timeout", Num(t) >> >>)

\* The mixer as constructed without a config.
MixerIdle == MixerNew(<< >>)

\* A producer on its own: the mixer stays as constructed.
ProducerAlone == ProducerInit /\ MixerIdle

(* --------------------------- specification ---------------------------- *)

ProducerNext ==
    \/ \E id \in Ids : AddConsumer(id)
    \/ \E id \in Ids : RemoveConsumer(id)
    \/ Forward
    \/ LatencyEvent
    \/ \E appsrc \in Sources : ForwardKeyUnit(appsrc)
    \/ NewSamplePullFailed
    \/ NewSampleDiscard
    \/ NewSampleDispatch
    \/ PushSample
    \/ NewSampleReturn
    \/ EosSnapshot
    \/ EosSignal
    \/ EosReturn

ProducerSpec == ProducerAlone /\ [][ProducerNext]_allVars

(* ------------------------- StreamProducer claims ---------------------- *)

\* The appsrcs currently in the consumer map.
Bound == { consumers[id].appsrc : id \in DOMAIN consumers }

\* The appsrcs the delivery in progress has still to push to.
Pending == IF pc = "pushing" THEN Range(current_consumers) ELSE {}

\* The appsrcs the delivery in progress has pushed to.
Served == { dlog[i].appsrc : i \in { j \in 1..Len(dlog) : dlog[j].e = "push" } }

\* Sample n was pulled after forward() and after `appsrc` was inserted, and
\* not after it was removed.
Covered(appsrc, n) ==
    /\ forwardAt # -1 /\ n > forwardAt
    /\ attachedAt[appsrc] # -1 /\ n > attachedAt[appsrc]
    /\ detachedAt[appsrc] = -1 \/ n <= detachedAt[appsrc]

\* C1: while discard is true a pulled sample is dropped: nothing is pushed,
\* no latency is set, no keyframe is requested, no consumer flag changes, and
\* new_sample returns Ok at once.
C1_DiscardDropsSample ==
    [][ (discard /\ sampleNo' = sampleNo + 1) =>
            /\ pushed' = pushed
            /\ latencySet' = latencySet
            /\ dlog' = dlog /\ dlog = << >>
            /\ consumers' = consumers
            /\ current_consumers' = current_consumers
            /\ pc' = "idle"
            /\ ret' = "Ok" ]_vars

\* A sample was dropped while a consumer was attached.
C1_Witness ==
    /\ discard
    /\ ret = "Ok"
    /\ \E id \in DOMAIN consumers :
         /\ attachedAt[consumers[id].appsrc] < sampleNo
         /\ consumers[id].first_buffer
         /\ pushed[consumers[id].appsrc] = << >>

\* C2: every sample pulled after forward() and after the consumer was
\* attached, and before it was detached, is pushed to the consumer's appsrc
\* exactly once by the end of its delivery; a sample pulled before the attach
\* is never pushed to it.
C2_PushedExactlyOnce ==
    \A appsrc \in Sources : \A n \in 1..sampleNo :
        /\ Covered(appsrc, n) =>
              IF pc = "pushing" /\ n = sample
              THEN Count(pushed[appsrc], n) + Count(current_consumers, appsrc) = 1
              ELSE Count(pushed[appsrc], n) = 1
        /\ (attachedAt[appsrc] # -1 /\ n <= attachedAt[appsrc]) =>
              Count(pushed[appsrc], n) = 0

\* A consumer attached after the first sample has received a later one, and
\* its delivery is over.
C2_Witness ==
    /\ pc = "idle"
    /\ \E appsrc \in Sources :
         /\ attachedAt[appsrc] >= 1
         /\ Covered(appsrc, sampleNo)
         /\ Count(pushed[appsrc], sampleNo) = 1

\* C3 as stated: once remove_consumer has returned, nothing more is pushed to
\* the removed consumer's appsrc.
C3_NoPushAfterDetach ==
    [][ \A appsrc \in Sources :
            detachedAt[appsrc] # -1 =>
                dlog' # Append(dlog, PushEvent(appsrc, TRUE)) ]_vars

\* C3 amended: a removed consumer's appsrc is pushed no sample pulled after
\* the removal; the one sample whose snapshot was taken before the removal may
\* still reach it.
C3_NoLaterSampleAfterDetach ==
    \A appsrc \in Sources :
        detachedAt[appsrc] # -1 =>
            /\ \A i \in 1..Len(pushed[appsrc]) : pushed[appsrc][i] <= detachedAt[appsrc]
            /\ appsrc \in Pending => sample <= detachedAt[appsrc]

\* A consumer that had received a sample was removed, and a later sample was
\* dispatched and delivered without it.
C3_Witness ==
    /\ pc = "idle"
    /\ \E appsrc \in Sources :
         /\ detachedAt[appsrc] # -1
         /\ pushed[appsrc] # << >>
         /\ sampleNo > detachedAt[appsrc]
         /\ sampleNo > forwardAt /\ forwardAt # -1

\* The appsrcs whose first push belongs to the delivery in progress.
FirstTimers ==
    { appsrc \in Pending \cup Served :
        \A i \in 1..Len(pushed[appsrc]) : pushed[appsrc][i] = sample }

FkuIndexes == { i \in 1..Len(dlog) : dlog[i].e = "fku" }
PushIndexes == { i \in 1..Len(dlog) : dlog[i].e = "push" }

C6_SinkOrderPreserved ==
    \A appsrc \in Sources :
        \A i, j \in 1..Len(pushed[appsrc]) :
            i < j => pushed[appsrc][i] < pushed[appsrc][j]

\* A consumer has received two samples while another consumer was attached in
\* between.
C6_Witness ==
    \E a, b \in Sources :
        /\ a # b
        /\ Len(pushed[a]) >= 2
        /\ attachedAt[b] >= pushed[a][1]

\* C7: a failed push_sample leaves the consumer map as it is and the loop
\* goes on with the rest of the snapshot; new_sample returns only when the
\* snapshot is used up, and it returns Ok.
C7_PushFailureTolerated ==
    [][ /\ (pc = "pushing" /\ Len(dlog') = Len(dlog) + 1 /\ Last(dlog').e = "push"
               /\ ~Last(dlog').ok) =>
              /\ consumers' = consumers
              /\ pc' = "pushing"
              /\ current_consumers # << >>
              /\ current_consumers' = Tail(current_consumers)
        /\ (pc = "pushing" /\ pc' # "pushing") =>
              /\ current_consumers = << >>
              /\ pc' = "idle"
              /\ ret' = "Ok" ]_vars

\* A push failed, a later push of the same delivery was made, and the
\* consumer whose push failed is still in the map.
C7_Witness ==
    /\ pc = "pushing"
    /\ \E i, j \in PushIndexes :
         /\ i < j
         /\ ~dlog[i].ok
         /\ dlog[i].appsrc \in Bound

\* C8: add_consumer under an id that is bound changes neither the map nor the
\* probes, and the appsrc it was given is never pushed a sample, set a
\* latency, or bound.
C8_DoubleAttachIgnored ==
    [][ /\ \A id \in Ids :
              (AddConsumer(id) /\ id \in DOMAIN consumers) =>
                  /\ consumers' = consumers
                  /\ probes' = probes
                  /\ UNCHANGED << discard, current_latency, latency_updated >>
        /\ \A appsrc \in Sources :
              rejectedAt'[appsrc] # -1 =>
                  /\ pushed'[appsrc] = << >>
                  /\ latencySet'[appsrc] = << >>
                  /\ appsrc \notin Range(current_consumers')
                  /\ \A id \in DOMAIN consumers' : consumers'[id].appsrc # appsrc ]_vars

\* An appsrc was refused, and a sample pulled later reached the consumer that
\* holds the id.
C8_Witness ==
    \E r, a \in Sources :
        /\ rejectedAt[r] # -1
        /\ a \in Bound
        /\ pushed[a] # << >>
        /\ Last(pushed[a]) > rejectedAt[r]
        /\ pushed[r] = << >>

\* C9: remove_consumer of an id that is not bound changes nothing, and after
\* any remove_consumer(id) a second one finds nothing to change.
C9_DetachIdempotent ==
    [][ \A id \in Ids :
            RemoveConsumer(id) =>
                /\ id \notin DOMAIN consumers =>
                      UNCHANGED << consumers, probes, discard, current_latency,
                                   latency_updated >>
                /\ id \notin DOMAIN consumers'
                /\ RemoveConsumerMap(consumers', id) = consumers' ]_vars

\* A consumer was removed and its id is free, so a second remove_consumer of
\* it finds no consumer, while another consumer is attached.
C9_Witness ==
    \E appsrc \in Sources :
        /\ detachedAt[appsrc] # -1
        /\ appsrc \notin Bound
        /\ DOMAIN consumers # {}
        /\ DOMAIN consumers # Ids

\* C10: discard is true until the first forward() and false ever after.
C10_DiscardFalseAfterForward ==
    discard <=> (forwardAt = -1)

\* After forward(): a sample was dispatched, a consumer was removed, a
\* latency was stored and the stream ended.
C10_Witness ==
    /\ ~discard
    /\ pc = "ended"
    /\ numLatency >= 1
    /\ sampleNo > forwardAt
    /\ \E appsrc \in Sources : detachedAt[appsrc] > forwardAt


(* ====================================================================== *)
(*                           Mixer: operations                            *)
(* ====================================================================== *)

(* ------------------------ slot property keys -------------------------- *)

\* The property keys requests carry.
SlotKeys == { "video::alpha", "audio::volume", "alpha", "text::alpha" }

\* Further keys: another property of the compositor's pads, and a name that
\* is the tail of it and no property.
KeyProps == { "video::alpha", "video::xpos", "video::pos", "audio::volume" }

\* property.splitn(2, "::") on those keys.
SplitN2(property) ==
    CASE property = "video::alpha" -> << "video", "alpha" >>
      [] property = "video::xpos" -> << "video", "xpos" >>
      [] property = "video::pos" -> << "video", "pos" >>
      [] property = "audio::volume" -> << "audio", "volume" >>
      [] property = "text::alpha" -> << "text", "alpha" >>
      [] OTHER -> << property >>

\* parse_slot_config_key that takes any media type for video.
parse_slot_config_key_AnyMedia(property) ==
    LET split == SplitN2(property)
    IN  IF Len(split) = 2
        THEN [ ok |-> TRUE, is_video |-> split[1] # "audio", property |-> split[2] ]
        ELSE [ ok |-> FALSE, is_video |-> FALSE, property |-> "" ]

\* parse_slot_config_key: Ok((is_video, property)) or Err.
parse_slot_config_key(property) ==
    LET split == SplitN2(property)
    IN  IF Len(split) = 2
        THEN CASE split[1] = "video" -> [ ok |-> TRUE, is_video |-> TRUE, property |-> split[2] ]
               [] split[1] = "audio" -> [ ok |-> TRUE, is_video |-> FALSE, property |-> split[2] ]
               [] OTHER -> [ ok |-> FALSE, is_video |-> FALSE, property |-> "" ]
        ELSE [ ok |-> FALSE, is_video |-> FALSE, property |-> "" ]

\* A pad as request_pad_simple hands it out: the element's property defaults.
NewVideoPad == [ p \in { "alpha", "xpos" } |-> IF p = "alpha" THEN 1 ELSE 0 ]
NewAudioPad == [ p \in { "volume" } |-> 1 ]

\* PropertyController::validate_value: the pad has the property and the
\* value has the property's type.
PropertyValidateValue(property, pad, value) ==
    /\ property \in DOMAIN pad
    /\ value.type = "number"

\* PropertyController::set_property_from_value.
SetPropertyFromValue(pad, property, value) == [ pad EXCEPT ![property] = value.v ]

\* The config loop of connect on the two freshly requested pads: entries are
\* applied in iteration order until one fails.
RECURSIVE ApplySlotConfig(_, _, _)
ApplySlotConfig(config, video_pad, audio_pad) ==
    IF config = << >>
    THEN [ ok |-> TRUE, video_pad |-> video_pad, audio_pad |-> audio_pad ]
    ELSE LET key == Head(config)[1]
             value == Head(config)[2]
             parsed == parse_slot_config_key(key)
             pad == IF parsed.is_video THEN video_pad ELSE audio_pad
         IN  IF ~parsed.ok \/ ~PropertyValidateValue(parsed.property, pad, value)
             THEN [ ok |-> FALSE, video_pad |-> video_pad, audio_pad |-> audio_pad ]
             ELSE IF parsed.is_video
                  THEN ApplySlotConfig(Tail(config),
                           SetPropertyFromValue(video_pad, parsed.property, value), audio_pad)
                  ELSE ApplySlotConfig(Tail(config), video_pad,
                           SetPropertyFromValue(audio_pad, parsed.property, value))

\* The configs Connect requests carry, in the map's iteration order: none,
\* one entry, or an accepted entry followed by another entry.
ConfigEntries == { << k, v >> : k \in SlotKeys, v \in { Num(0), Str } }
Configs ==
    { << >> } \cup { << e >> : e \in ConfigEntries }
              \cup { << << "video::alpha", Num(0) >>, e >> :
                        e \in { f \in ConfigEntries : f[1] # "video::alpha" } }

(* --------------------------- connect_slot ----------------------------- *)

\* The appsrc elements connect creates for the slot on pad `pad`.
VideoAppsrc(pad) == << "video", pad >>
AudioAppsrc(pad) == << "audio", pad >>

\* The ConsumerSlot connect builds.
NewConsumerSlot(node, pad) ==
    [ node |-> node, pad |-> pad, video_bin |-> FALSE, audio_bin |-> FALSE, volume |-> 1 ]

\* connect_slot: the slot with both bins built.
ConnectedSlot(slot) == [ slot EXCEPT !.video_bin = TRUE, !.audio_bin = TRUE ]

\* connect_slot: the audio pad's volume is set from the slot.
ConnectedAudioPads(pads, slot) == [ pads EXCEPT ![slot.pad]["volume"] = slot.volume ]

\* connect_slot: both appsrcs are added as consumers of the slot's producers.
ConnectedUpstream(up, slot, id) ==
    [ up EXCEPT ![slot.node] =
        [ video |-> AddConsumerMap(@.video, VideoAppsrc(slot.pad), id),
          audio |-> AddConsumerMap(@.audio, AudioAppsrc(slot.pad), id) ] ]

(* ------------------------------ connect ------------------------------- *)

\* The condition under which connect builds the slot's bins at once.
ConnectsNow(s) == s = "Started"

\* connect without its early return.
HasLink_Never(slots, link_id) == FALSE

\* The early return of connect.
HasLink(slots, link_id) == link_id \in DOMAIN slots

\* Handler<ConnectMessage>: connect(link_id, video_producer, audio_producer, config).
Connect(link_id, node, config) ==
    /\ actor = "Running"
    /\ IF HasLink(consumer_slots, link_id)
       THEN /\ reply' = << "Connect", "Err" >>
            /\ UNCHANGED << consumer_slots, video_pads, audio_pads, nextPad, upstream >>
       ELSE /\ nextPad < MaxPads
            /\ LET pad == nextPad + 1
                   applied == ApplySlotConfig(config, NewVideoPad, NewAudioPad)
                   vpads == MapInsert(video_pads, pad, applied.video_pad)
                   apads == MapInsert(audio_pads, pad, applied.audio_pad)
                   slot == NewConsumerSlot(node, pad)
               IN  /\ nextPad' = pad
                   /\ IF ~applied.ok
                      THEN /\ reply' = << "Connect", "Err" >>
                           /\ video_pads' = vpads
                           /\ audio_pads' = apads
                           /\ UNCHANGED << consumer_slots, upstream >>
                      ELSE /\ reply' = << "Connect", "Ok" >>
                           /\ video_pads' = vpads
                           /\ IF ConnectsNow(state)
                              THEN /\ audio_pads' = ConnectedAudioPads(apads, slot)
                                   /\ upstream' = ConnectedUpstream(upstream, slot, link_id)
                                   /\ consumer_slots' =
                                        MapInsert(consumer_slots, link_id, ConnectedSlot(slot))
                              ELSE /\ audio_pads' = apads
                                   /\ upstream' = upstream
                                   /\ consumer_slots' =
                                        MapInsert(consumer_slots, link_id, slot)
    /\ UNCHANGED << state, settings, video_mixing_state, audio_mixing_state,
                    caps, base_plate_pad, timeout, numPoints >>
    /\ UNCHANGED lifeVars
    /\ UNCHANGED lockVars
    /\ UNCHANGED vars

(* ----------------------------- disconnect ----------------------------- *)

\* disconnect: a request pad is released only with the bin linked to it.
ReleasedPads(pads, pad, bin) == IF bin THEN MapRemove(pads, pad) ELSE pads

\* disconnect: the consumers are removed from the slot's producers.
DisconnectedUpstream(up, slot, id) ==
    [ up EXCEPT ![slot.node] =
        [ video |-> RemoveConsumerMap(@.video, id),
          audio |-> RemoveConsumerMap(@.audio, id) ] ]

\* consumer_slots.remove that empties the map when the id is not in it.
RemovedSlots_Clear(slots, slot_id) ==
    IF slot_id \in DOMAIN slots THEN MapRemove(slots, slot_id) ELSE << >>

\* The map consumer_slots.remove(slot_id) leaves behind.
RemovedSlots(slots, slot_id) ==
    IF slot_id \in DOMAIN slots THEN MapRemove(slots, slot_id) ELSE slots

\* Handler<DisconnectMessage>: disconnect(slot_id).
Disconnect(slot_id) ==
    /\ actor = "Running"
    /\ consumer_slots' = RemovedSlots(consumer_slots, slot_id)
    /\ IF slot_id \in DOMAIN consumer_slots
       THEN LET slot == consumer_slots[slot_id]
            IN  /\ upstream' = DisconnectedUpstream(upstream, slot, slot_id)
                /\ video_pads' = ReleasedPads(video_pads, slot.pad, slot.video_bin)
                /\ audio_pads' = ReleasedPads(audio_pads, slot.pad, slot.audio_bin)
                /\ reply' = << "Disconnect", "Ok" >>
       ELSE /\ reply' = << "Disconnect", "Err" >>
            /\ UNCHANGED << upstream, video_pads, audio_pads >>
    /\ UNCHANGED << state, settings, nextPad, video_mixing_state,
                    audio_mixing_state, caps, base_plate_pad, timeout, numPoints >>
    /\ UNCHANGED lifeVars
    /\ UNCHANGED lockVars
    /\ UNCHANGED vars

(* --------------------------- start_pipeline --------------------------- *)

\* start_pipeline: connect_slot on every slot of consumer_slots.
RECURSIVE ConnectAllUpstream(_, _, _)
ConnectAllUpstream(up, slots, ids) ==
    IF ids = {}
    THEN up
    ELSE LET id == CHOOSE x \in ids : TRUE
         IN  ConnectAllUpstream(ConnectedUpstream(up, slots[id], id), slots, ids \ {id})

RECURSIVE ConnectAllAudioPads(_, _, _)
ConnectAllAudioPads(pads, slots, ids) ==
    IF ids = {}
    THEN pads
    ELSE LET id == CHOOSE x \in ids : TRUE
         IN  ConnectAllAudioPads(ConnectedAudioPads(pads, slots[id]), slots, ids \ {id})

\* The caps start_pipeline sets on the output video capsfilter.
StartCaps == [ width |-> SettingI32("width"), height |-> SettingI32("height") ]

\* The properties start_pipeline sets on the compositor's sink_0.
StartBasePlatePad ==
    [ alpha |-> 0, width |-> SettingI32("width"), height |-> SettingI32("height") ]

\* start_pipeline, on its successful path.
StartPipeline ==
    /\ caps' = StartCaps
    /\ base_plate_pad' = StartBasePlatePad
    /\ consumer_slots' = [ id \in DOMAIN consumer_slots |-> ConnectedSlot(consumer_slots[id]) ]
    /\ audio_pads' = ConnectAllAudioPads(audio_pads, consumer_slots, DOMAIN consumer_slots)
    /\ upstream' = ConnectAllUpstream(upstream, consumer_slots, DOMAIN consumer_slots)
    /\ video_mixing_state' = [ video_mixing_state EXCEPT !.capsfilter = TRUE ]
    /\ timeout' = SettingI32("fallback-timeout")
    /\ output' = [ video |-> FALSE, audio |-> FALSE ]

\* What start_pipeline writes.
pipelineVars == << caps, base_plate_pad, consumer_slots, audio_pads, upstream,
                   video_mixing_state, timeout, output >>

\* Schedulable::transition(Starting), the state machine taking the step.
StartTransition ==
    /\ state' = "Starting"
    /\ StartPipeline

\* Schedulable::start_schedule(cue_time, end_time): in Initial, a cue time
\* that is not in the future starts the pipeline at once, a later one arms a
\* timer; the other states have no transition for it.
start_schedule(cue_time, end_time) ==
    IF state = "Initial"
    THEN IF Due(cue_time)
         THEN /\ StartTransition
              /\ schedule' = [ cue_time |-> cue_time, end_time |-> end_time,
                               pending |-> FALSE ]
         ELSE /\ schedule' = [ cue_time |-> cue_time, end_time |-> end_time,
                               pending |-> TRUE ]
              /\ UNCHANGED << state, pipelineVars >>
    ELSE UNCHANGED << state, schedule, pipelineVars >>

\* A StartMessage handler that starts the pipeline itself, whatever the state.
Start_Restart(cue_time, end_time) ==
    /\ actor = "Running"
    /\ StartTransition
    /\ schedule' = [ cue_time |-> cue_time, end_time |-> end_time, pending |-> FALSE ]
    /\ reply' = << "Start", "Ok" >>
    /\ UNCHANGED << settings, video_pads, nextPad, audio_mixing_state, numPoints,
                    actor, registry >>
    /\ UNCHANGED lockVars
    /\ UNCHANGED vars

\* Handler<StartMessage>: start_schedule(cue_time, end_time).
Start(cue_time, end_time) ==
    /\ actor = "Running"
    /\ start_schedule(cue_time, end_time)
    /\ reply' = << "Start", "Ok" >>
    /\ UNCHANGED << settings, video_pads, nextPad, audio_mixing_state, numPoints,
                    actor, registry >>
    /\ UNCHANGED lockVars
    /\ UNCHANGED vars

\* The timer armed by start_schedule fires: Initial -> Starting.
CueReached ==
    /\ actor = "Running"
    /\ state = "Initial"
    /\ schedule.pending
    /\ StartTransition
    /\ schedule' = [ schedule EXCEPT !.pending = FALSE ]
    /\ UNCHANGED << settings, video_pads, nextPad, audio_mixing_state, numPoints,
                    actor, registry, reply >>
    /\ UNCHANGED lockVars
    /\ UNCHANGED vars

\* The pipeline reached Playing: Starting -> Started.
PipelineReady ==
    /\ actor = "Running"
    /\ state = "Starting"
    /\ state' = "Started"
    /\ UNCHANGED << settings, consumer_slots, video_pads, audio_pads, nextPad,
                    upstream, video_mixing_state, audio_mixing_state, caps,
                    base_plate_pad, timeout, reply, numPoints >>
    /\ UNCHANGED lifeVars
    /\ UNCHANGED lockVars
    /\ UNCHANGED vars

\* Schedulable::reschedule: valid in Initial and Starting only.
CanReschedule(s) == s \in { "Initial", "Starting" }

\* A ScheduleMessage handler that calls start_schedule, as the StartMessage
\* handler does, instead of reschedule.
Schedule_AsStart(cue_time, end_time) ==
    /\ actor = "Running"
    /\ start_schedule(cue_time, end_time)
    /\ reply' = << "Schedule", "Ok" >>
    /\ UNCHANGED << settings, video_pads, nextPad, audio_mixing_state, numPoints,
                    actor, registry >>
    /\ UNCHANGED lockVars
    /\ UNCHANGED vars

\* Handler<ScheduleMessage>: reschedule(cue_time, end_time).  In Initial the
\* start is scheduled afresh; in Starting the cue time has passed and only the
\* times are replaced.
Schedule(cue_time, end_time) ==
    /\ actor = "Running"
    /\ IF CanReschedule(state)
       THEN /\ reply' = << "Schedule", "Ok" >>
            /\ IF state = "Initial"
               THEN start_schedule(cue_time, end_time)
               ELSE /\ schedule' = [ schedule EXCEPT !.cue_time = cue_time,
                                                     !.end_time = end_time ]
                    /\ UNCHANGED << state, pipelineVars >>
       ELSE /\ reply' = << "Schedule", "Err" >>
            /\ UNCHANGED << state, schedule, pipelineVars >>
    /\ UNCHANGED << settings, video_pads, nextPad, audio_mixing_state, numPoints,
                    actor, registry >>
    /\ UNCHANGED lockVars
    /\ UNCHANGED vars

\* The end time elapsed: Started -> Stopping; transition(Stopping) is Skip.
EndReached ==
    /\ actor = "Running"
    /\ state = "Started"
    /\ schedule.end_time # NoTime
    /\ state' = "Stopping"
    /\ UNCHANGED << settings, consumer_slots, video_pads, audio_pads, nextPad,
                    upstream, video_mixing_state, audio_mixing_state, caps,
                    base_plate_pad, timeout, reply, numPoints >>
    /\ UNCHANGED lifeVars
    /\ UNCHANGED lockVars
    /\ UNCHANGED vars

\* Mixer::stop: stop_schedule cancels the pending timer, ctx.stop() stops the
\* actor's context.
stop ==
    /\ schedule' = [ schedule EXCEPT !.pending = FALSE ]
    /\ actor' = "Stopping"

\* Stopping -> Stopped: transition(Stopped) calls stop.
NullReached ==
    /\ actor = "Running"
    /\ state = "Stopping"
    /\ state' = "Stopped"
    /\ stop
    /\ UNCHANGED << settings, consumer_slots, video_pads, audio_pads, nextPad,
                    upstream, video_mixing_state, audio_mixing_state, caps,
                    base_plate_pad, timeout, reply, numPoints, registry, output >>
    /\ UNCHANGED lockVars
    /\ UNCHANGED vars

\* A StopMessage handler that answers without stopping the context.
Stop_KeepsRunning ==
    /\ actor = "Running"
    /\ reply' = << "Stop", "Ok" >>
    /\ UNCHANGED << state, settings, consumer_slots, video_pads, audio_pads, nextPad,
                    upstream, video_mixing_state, audio_mixing_state, caps,
                    base_plate_pad, timeout, numPoints >>
    /\ UNCHANGED lifeVars
    /\ UNCHANGED lockVars
    /\ UNCHANGED vars

\* A StopMessage handler that sends the Stopped notification itself as well.
Stop_Notifies ==
    /\ actor = "Running"
    /\ actor' = "Stopping"
    /\ reply' = << "Stop", "Ok" >>
    /\ registry' = Append(registry, [ type |-> "Stopped", id |-> MixerId,
                                      video_producer |-> "video",
                                      audio_producer |-> "video" ])
    /\ UNCHANGED << state, settings, consumer_slots, video_pads, audio_pads, nextPad,
                    upstream, video_mixing_state, audio_mixing_state, caps,
                    base_plate_pad, timeout, numPoints, schedule, output >>
    /\ UNCHANGED lockVars
    /\ UNCHANGED vars

\* Handler<StopMessage>: ctx.stop().
Stop ==
    /\ actor = "Running"
    /\ actor' = "Stopping"
    /\ reply' = << "Stop", "Ok" >>
    /\ UNCHANGED << state, settings, consumer_slots, video_pads, audio_pads, nextPad,
                    upstream, video_mixing_state, audio_mixing_state, caps,
                    base_plate_pad, timeout, numPoints, schedule, registry, output >>
    /\ UNCHANGED lockVars
    /\ UNCHANGED vars

\* NodeStatusMessage::Error { id, message }.
ErrorStatus(message) == [ type |-> "Error", id |-> MixerId, message |-> message ]

\* Handler<ErrorMessage>: the status is sent to the NodeManager, then ctx.stop().
ErrorMessage(message) ==
    /\ actor = "Running"
    /\ registry' = Append(registry, ErrorStatus(message))
    /\ actor' = "Stopping"
    /\ UNCHANGED << state, settings, consumer_slots, video_pads, audio_pads, nextPad,
                    upstream, video_mixing_state, audio_mixing_state, caps,
                    base_plate_pad, timeout, reply, numPoints, schedule, output >>
    /\ UNCHANGED lockVars
    /\ UNCHANGED vars

\* A drain that drops the slots without detaching them from their producers.
DrainedUpstream_Keep(up, slots, ids) == up

\* Actor::stopped: consumer_slots.drain() with remove_consumer on both
\* producers of every slot.
RECURSIVE DrainedUpstream(_, _, _)
DrainedUpstream(up, slots, ids) ==
    IF ids = {}
    THEN up
    ELSE LET id == CHOOSE x \in ids : TRUE
         IN  DrainedUpstream(DisconnectedUpstream(up, slots[id], id), slots, ids \ {id})

\* The StoppedMessage Actor::stopped sends.
StoppedMessage ==
    [ type |-> "Stopped", id |-> MixerId,
      video_producer |-> VideoProducer, audio_producer |-> VideoProducer ]

\* Actor::stopped, run once by the context that was told to stop.
stopped ==
    /\ actor = "Stopping"
    /\ actor' = "Stopped"
    /\ consumer_slots' = << >>
    /\ upstream' = DrainedUpstream(upstream, consumer_slots, DOMAIN consumer_slots)
    /\ registry' = Append(registry, StoppedMessage)
    /\ UNCHANGED << state, settings, video_pads, audio_pads, nextPad,
                    video_mixing_state, audio_mixing_state, caps,
                    base_plate_pad, timeout, reply, numPoints, schedule, output >>
    /\ UNCHANGED lockVars
    /\ UNCHANGED vars

\* Handler<GetProducerMessage>.
GetProducer ==
    /\ actor = "Running"
    /\ reply' = << "GetProducer", << VideoProducer, AudioProducer >> >>
    /\ UNCHANGED << state, settings, consumer_slots, video_pads, audio_pads, nextPad,
                    upstream, video_mixing_state, audio_mixing_state, caps,
                    base_plate_pad, timeout, numPoints >>
    /\ UNCHANGED lifeVars
    /\ UNCHANGED lockVars
    /\ UNCHANGED vars

(* ---------------------------- controllers ----------------------------- *)

\* A control point of a request.
ControlPoints == { [ id |-> i, value |-> v ] : i \in PointIds, v \in Values }

\* PropertyController::new / SettingController::new: `pad` is the pad a
\* property controller writes to (0 for a setting controller).
NewController(controllee_id, pad, propname) ==
    [ controllee_id |-> controllee_id, pad |-> pad, propname |-> propname,
      points |-> << >>, active |-> << >> ]

\* push_control_point.
PushControlPoint(c, point) == [ c EXCEPT !.points = Append(@, point) ]

\* remove_control_point(id).
RemovePoint(c, id) ==
    LET Keep(p) == p.id # id
    IN  [ c EXCEPT !.points = SelectSeq(@, Keep) ]

\* control_points(): the pending points.
PendingPoints(c) == c.points

\* The steps one synchronize(now, duration) call can take, depending on the
\* wall clock: nothing is due; a segment starts and moves part of the way;
\* a point is applied stepwise; the active segment is committed.
SyncKinds == { "idle", "start", "step", "commit" }

SyncEnabled(c, kind) ==
    CASE kind = "idle" -> c.active = << >>
      [] kind \in { "start", "step" } -> c.active = << >> /\ c.points # << >>
      [] OTHER -> c.active # << >>

Mid(from, to) == (from + to) \div 2

\* The controllee's value after the step.
SyncValue(c, kind, current) ==
    CASE kind = "idle" -> current
      [] kind = "start" -> Mid(current, Head(c.points).value.v)
      [] kind = "step" -> Head(c.points).value.v
      [] OTHER -> Head(c.active).value.v

\* The controller after the step.
SyncController(c, kind) ==
    CASE kind = "idle" -> c
      [] kind = "start" -> [ c EXCEPT !.active = << Head(c.points) >>, !.points = Tail(@) ]
      [] kind = "step" -> [ c EXCEPT !.points = Tail(@) ]
      [] OTHER -> [ c EXCEPT !.active = << >> ]

\* What synchronize returns: no active segment and no pending point.
Done(c) == c.active = << >> /\ c.points = << >>

\* One choice of step for every controller of a map.
SyncChoices(controllers) ==
    { ks \in [ DOMAIN controllers -> SyncKinds ] :
        \A id \in DOMAIN controllers : SyncEnabled(controllers[id], ks[id]) }

(* ----------------------- slot control points -------------------------- *)

\* PropertyController::validate_control_point.
PropertyValidatePoint(property, pad, point) ==
    PropertyValidateValue(property, pad, point.value)

\* entry(id).or_insert_with(new).push_control_point(point) on a controller map.
UpsertPoint(controllers, key, fresh, point) ==
    MapInsert(controllers, key,
              PushControlPoint(IF key \in DOMAIN controllers THEN controllers[key] ELSE fresh,
                               point))

\* The checks add_slot_control_point makes before it touches a controller.
SlotPointAccepted(slot_id, property, point) ==
    /\ slot_id \in DOMAIN consumer_slots
    /\ LET parsed == parse_slot_config_key(property)
           slot == consumer_slots[slot_id]
           pad == IF parsed.is_video THEN video_pads[slot.pad] ELSE audio_pads[slot.pad]
       IN  /\ parsed.ok
           /\ PropertyValidatePoint(parsed.property, pad, point)

\* A key made of the property alone.
ControllerKey_Property(slot_id, property) == property

\* The key of a slot controller: slot_id.to_owned() + property.
ControllerKey(slot_id, property) == slot_id \o property

\* add_slot_control_point(slot_id, property, point).
add_slot_control_point(slot_id, property, point) ==
    /\ actor = "Running"
    /\ IF SlotPointAccepted(slot_id, property, point)
       THEN /\ numPoints' = numPoints + 1
            /\ LET parsed == parse_slot_config_key(property)
                   key == ControllerKey(slot_id, parsed.property)
                   fresh == NewController(slot_id, consumer_slots[slot_id].pad, parsed.property)
               IN  IF parsed.is_video
                   THEN /\ video_mixing_state' =
                             [ video_mixing_state EXCEPT !.slot_controllers =
                                 UpsertPoint(@, key, fresh, point) ]
                        /\ UNCHANGED audio_mixing_state
                   ELSE /\ audio_mixing_state' =
                             [ audio_mixing_state EXCEPT !.slot_controllers =
                                 UpsertPoint(@, key, fresh, point) ]
                        /\ UNCHANGED video_mixing_state
            /\ reply' = << "AddSlotControlPoint", "Ok" >>
       ELSE /\ reply' = << "AddSlotControlPoint", "Err" >>
            /\ UNCHANGED << video_mixing_state, audio_mixing_state, numPoints >>
    /\ UNCHANGED << state, settings, consumer_slots, video_pads, audio_pads,
                    nextPad, upstream, caps, base_plate_pad, timeout >>
    /\ UNCHANGED lifeVars
    /\ UNCHANGED lockVars
    /\ UNCHANGED vars

\* Handler<ConsumerMessage::AddControlPoint>: add_slot_control_point, for as
\* long as fewer than MaxPoints points were accepted.
AddSlotControlPoint(slot_id, property, point) ==
    /\ SlotPointAccepted(slot_id, property, point) => numPoints < MaxPoints
    /\ add_slot_control_point(slot_id, property, point)

\* The same handler, for as long as fewer than MaxKeyPoints points were accepted.
AddKeyedControlPoint(slot_id, property, point) ==
    /\ SlotPointAccepted(slot_id, property, point) => numPoints < MaxKeyPoints
    /\ add_slot_control_point(slot_id, property, point)

\* remove_control_point on the controller stored under `key`, if there is one.
RemoveFrom(controllers, key, controller_id) ==
    IF key \in DOMAIN controllers
    THEN [ controllers EXCEPT ![key] = RemovePoint(@, controller_id) ]
    ELSE controllers

\* Handler<ConsumerMessage::RemoveControlPoint>: remove_slot_control_point.
RemoveSlotControlPoint(controller_id, slot_id, property) ==
    /\ actor = "Running"
    /\ LET split == SplitN2(property)
           key == ControllerKey(slot_id, split[2])
       IN  IF Len(split) = 2 /\ split[1] = "video"
           THEN /\ video_mixing_state' =
                     [ video_mixing_state EXCEPT !.slot_controllers =
                         RemoveFrom(@, key, controller_id) ]
                /\ UNCHANGED audio_mixing_state
           ELSE IF Len(split) = 2 /\ split[1] = "audio"
           THEN /\ audio_mixing_state' =
                     [ audio_mixing_state EXCEPT !.slot_controllers =
                         RemoveFrom(@, key, controller_id) ]
                /\ UNCHANGED video_mixing_state
           ELSE UNCHANGED << video_mixing_state, audio_mixing_state >>
    /\ reply' = << "RemoveSlotControlPoint", "Ok" >>
    /\ UNCHANGED << state, settings, consumer_slots, video_pads, audio_pads,
                    nextPad, upstream, caps, base_plate_pad, timeout, numPoints >>
    /\ UNCHANGED lifeVars
    /\ UNCHANGED lockVars
    /\ UNCHANGED vars

(* ----------------------- mixer control points ------------------------- *)

\* The property names AddControlPoint / RemoveControlPoint requests carry.
MixerProps == { "width", "height", "fallback-timeout", "sample-rate", "depth" }

\* SettingController::validate_control_point.
SettingValidatePoint(setting, point) ==
    /\ setting.controllable
    /\ SettingValidateValue(setting, point.value)

\* Handler<AddControlPointMessage>: add_control_point(property, point).
AddControlPoint(property, point) ==
    /\ actor = "Running"
    /\ IF property \in DOMAIN settings /\ SettingValidatePoint(settings[property], point)
       THEN /\ numPoints < MaxPoints
            /\ numPoints' = numPoints + 1
            /\ video_mixing_state' =
                 [ video_mixing_state EXCEPT !.mixer_controllers =
                     UpsertPoint(@, property, NewController("mixer", 0, property), point) ]
            /\ reply' = << "AddControlPoint", "Ok" >>
       ELSE /\ reply' = << "AddControlPoint", "Err" >>
            /\ UNCHANGED << video_mixing_state, numPoints >>
    /\ UNCHANGED << state, settings, consumer_slots, video_pads, audio_pads,
                    nextPad, upstream, audio_mixing_state, caps, base_plate_pad, timeout >>
    /\ UNCHANGED lifeVars
    /\ UNCHANGED lockVars
    /\ UNCHANGED vars

\* Handler<RemoveControlPointMessage>: remove_control_point(controller_id, property).
RemoveControlPoint(controller_id, property) ==
    /\ actor = "Running"
    /\ video_mixing_state' =
         [ video_mixing_state EXCEPT !.slot_controllers =
             RemoveFrom(@, property, controller_id) ]
    /\ reply' = << "RemoveControlPoint", "Ok" >>
    /\ UNCHANGED << state, settings, consumer_slots, video_pads, audio_pads,
                    nextPad, upstream, audio_mixing_state, caps, base_plate_pad, timeout,
                    numPoints >>
    /\ UNCHANGED lifeVars
    /\ UNCHANGED lockVars
    /\ UNCHANGED vars

(* ---------------------- samples-selected callbacks -------------------- *)

\* A synchronize loop that reinserts every controller, done or not.
Retained_All(controllers, ks) ==
    [ id \in DOMAIN controllers |-> SyncController(controllers[id], ks[id]) ]

\* synchronize_slot_controllers, synchronize_mixer_controllers: a controller is
\* kept iff its synchronize did not return done.
Retained(controllers, ks) ==
    [ id \in { i \in DOMAIN controllers : ~Done(SyncController(controllers[i], ks[i])) } |->
        SyncController(controllers[id], ks[id]) ]

\* The pads after every controller of the map has written its property.
SyncedPads(pads, controllers, ks) ==
    [ p \in DOMAIN pads |->
        [ q \in DOMAIN pads[p] |->
            LET ids == { i \in DOMAIN controllers :
                           controllers[i].pad = p /\ controllers[i].propname = q }
            IN  IF ids = {}
                THEN pads[p][q]
                ELSE LET id == CHOOSE i \in ids : TRUE
                     IN  SyncValue(controllers[id], ks[id], pads[p][q]) ] ]

\* synchronize_mixer_controllers: the settings after every controller has
\* written its setting.
SyncedSettings(sets, controllers, ks) ==
    [ n \in DOMAIN sets |->
        IF n \in DOMAIN controllers
        THEN [ sets[n] EXCEPT !.current = SyncValue(controllers[n], ks[n], @) ]
        ELSE sets[n] ]

\* synchronize_mixer_controllers that resizes only for a controller it keeps.
Resized_OnlyKept(old, capsfilter, controllers, ks, sets) ==
    [ f \in DOMAIN old |->
        IF capsfilter /\ f \in { "width", "height" } /\ f \in DOMAIN controllers
           /\ ~Done(SyncController(controllers[f], ks[f]))
        THEN sets[f].current
        ELSE old[f] ]

\* synchronize_mixer_controllers: with the capsfilter present, a "width" or
\* "height" controller copies its setting into `old` (the output caps, the
\* base plate pad).
Resized(old, capsfilter, controllers, ks, sets) ==
    [ f \in DOMAIN old |->
        IF capsfilter /\ f \in { "width", "height" } /\ f \in DOMAIN controllers
        THEN sets[f].current
        ELSE old[f] ]

\* The compositor's sink pads, other than sink_0, that are linked to a bin.
LinkedVideoPads == { consumer_slots[id].pad : id \in { i \in DOMAIN consumer_slots :
                                                        consumer_slots[i].video_bin } }

\* A callback that reads the fallback-timeout setting each time it runs.
Threshold_Live(captured, sets) == sets["fallback-timeout"].current

\* The `timeout` the samples-selected closure passes on: the value it captured
\* when start_pipeline built it.
Threshold(captured, sets) == captured

\* The fallback timeout ending as soon as it is reached.
TimedOut_AtTimeout(pts, since, limit) == pts - since >= limit

\* The comparison that ends the fallback timeout.
TimedOut(pts, since, limit) == pts - since > limit

\* update_video_mixing_state that, when a slot has a sample, forgets since
\* when the base plate was alone but leaves it marked as shown.
BasePlateStep_KeepsShowing(ms, pts, base_plate_only) ==
    IF base_plate_only
    THEN IF ms.base_plate_timeout = CLOCK_TIME_NONE
         THEN [ ms EXCEPT !.base_plate_timeout = pts ]
         ELSE IF ~ms.showing_base_plate /\ pts - ms.base_plate_timeout > timeout
              THEN [ ms EXCEPT !.showing_base_plate = TRUE ]
              ELSE ms
    ELSE [ ms EXCEPT !.base_plate_timeout = CLOCK_TIME_NONE ]

\* The base plate part of update_video_mixing_state.
BasePlateStep(ms, pts, base_plate_only) ==
    IF base_plate_only
    THEN IF ms.base_plate_timeout = CLOCK_TIME_NONE
         THEN [ ms EXCEPT !.base_plate_timeout = pts ]
         ELSE IF /\ ~ms.showing_base_plate
                 /\ TimedOut(pts, ms.base_plate_timeout, Threshold(timeout, settings))
              THEN [ ms EXCEPT !.showing_base_plate = TRUE ]
              ELSE ms
    ELSE [ ms EXCEPT !.showing_base_plate = FALSE, !.base_plate_timeout = CLOCK_TIME_NONE ]

\* update_video_mixing_state that never hides the base plate again.
BasePlateAlpha_NeverHides(ms, pts, base_plate_only, alpha) ==
    IF /\ base_plate_only
       /\ ms.base_plate_timeout # CLOCK_TIME_NONE
       /\ ~ms.showing_base_plate
       /\ pts - ms.base_plate_timeout > timeout
    THEN 1
    ELSE alpha

\* The alpha update_video_mixing_state leaves on sink_0.
BasePlateAlpha(ms, pts, base_plate_only, alpha) ==
    IF base_plate_only
    THEN IF /\ ms.base_plate_timeout # CLOCK_TIME_NONE
            /\ ~ms.showing_base_plate
            /\ TimedOut(pts, ms.base_plate_timeout, Threshold(timeout, settings))
         THEN 1
         ELSE alpha
    ELSE IF ms.showing_base_plate THEN 0 ELSE alpha

\* A callback that, after the first one, stores the previous pts less the
\* duration instead of the pts.
ObservedPts_Back(last_pts, pts) ==
    IF last_pts = CLOCK_TIME_NONE THEN pts ELSE last_pts - (pts - last_pts)

\* mixing_state.last_pts = pts, the last statement of both callbacks.
ObservedPts(last_pts, pts) == pts

\* The compositor's samples-selected callback: update_video_mixing_state.
\* `ready` are the pads whose peek_next_sample returns a sample.
VideoSamplesSelected(pts, ready) ==
    /\ video_mixing_state.capsfilter
    /\ pts > video_mixing_state.last_pts
    /\ ready \subseteq LinkedVideoPads
    /\ \E sk \in SyncChoices(video_mixing_state.slot_controllers) :
       \E mk \in SyncChoices(video_mixing_state.mixer_controllers) :
          LET ms == video_mixing_state
              base_plate_only == ready = {}
              stepped == BasePlateStep(ms, pts, base_plate_only)
              sets == SyncedSettings(settings, ms.mixer_controllers, mk)
              alpha == BasePlateAlpha(ms, pts, base_plate_only, base_plate_pad.alpha)
          IN  /\ video_pads' = SyncedPads(video_pads, ms.slot_controllers, sk)
              /\ settings' = sets
              /\ caps' = Resized(caps, ms.capsfilter, ms.mixer_controllers, mk, sets)
              /\ base_plate_pad' =
                   Resized([ base_plate_pad EXCEPT !.alpha = alpha ],
                           ms.capsfilter, ms.mixer_controllers, mk, sets)
              /\ video_mixing_state' =
                   [ stepped EXCEPT
                       !.slot_controllers = Retained(ms.slot_controllers, sk),
                       !.mixer_controllers = Retained(ms.mixer_controllers, mk),
                       !.last_pts = ObservedPts(ms.last_pts, pts) ]
    /\ UNCHANGED << state, consumer_slots, audio_pads, nextPad, upstream,
                    audio_mixing_state, timeout, reply, numPoints >>
    /\ UNCHANGED lifeVars
    /\ UNCHANGED lockVars
    /\ UNCHANGED vars

\* The audiomixer's samples-selected callback: update_audio_mixing_state.
AudioSamplesSelected(pts) ==
    /\ video_mixing_state.capsfilter
    /\ pts > audio_mixing_state.last_pts
    /\ \E sk \in SyncChoices(audio_mixing_state.slot_controllers) :
          LET ms == audio_mixing_state
          IN  /\ audio_pads' = SyncedPads(audio_pads, ms.slot_controllers, sk)
              /\ audio_mixing_state' =
                   [ ms EXCEPT
                       !.slot_controllers = Retained(ms.slot_controllers, sk),
                       !.last_pts = ObservedPts(ms.last_pts, pts) ]
    /\ UNCHANGED << state, settings, consumer_slots, video_pads, nextPad, upstream,
                    video_mixing_state, caps, base_plate_pad, timeout, reply, numPoints >>
    /\ UNCHANGED lifeVars
    /\ UNCHANGED lockVars
    /\ UNCHANGED vars

(* ---------------------------- GetNodeInfo ----------------------------- *)

\* MixerInfo.slots.
InfoSlots == [ id \in DOMAIN consumer_slots |-> [ volume |-> consumer_slots[id].volume ] ]

\* MixerInfo.slot_settings: slot_settings().
InfoSlotSettings ==
    [ id \in DOMAIN consumer_slots |->
        [ video |-> video_pads[consumer_slots[id].pad],
          audio |-> audio_pads[consumer_slots[id].pad] ] ]

\* slot_control_points() for one controller map under one prefix.
InfoPointsOf(controllers, controllee_id) ==
    LET ids == { i \in DOMAIN controllers : controllers[i].controllee_id = controllee_id }
    IN  { << controllers[i].propname, PendingPoints(controllers[i]) >> : i \in ids }

\* MixerInfo.slot_control_points: slot_control_points().
InfoSlotControlPoints ==
    LET vc == video_mixing_state.slot_controllers
        ac == audio_mixing_state.slot_controllers
    IN  [ cid \in { vc[i].controllee_id : i \in DOMAIN vc }
                  \cup { ac[i].controllee_id : i \in DOMAIN ac } |->
            [ video |-> InfoPointsOf(vc, cid), audio |-> InfoPointsOf(ac, cid) ] ]

\* MixerInfo.control_points: control_points().
InfoControlPoints ==
    [ id \in DOMAIN video_mixing_state.mixer_controllers |->
        PendingPoints(video_mixing_state.mixer_controllers[id]) ]

(* ------------------------------ locking ------------------------------- *)

\* What a handler or a callback does to the mutexes, as the lock and unlock
\* steps it takes in order; everything else it does is left out here.

\* A MutexGuard that lives for one statement.
Locked(m) == << << "lock", m >>, << "unlock", m >> >>

\* The steps of several pieces one after the other.
RECURSIVE Concat(_)
Concat(pieces) == IF pieces = << >> THEN << >> ELSE Head(pieces) \o Concat(Tail(pieces))

\* add_control_point keeping the Setting's guard until it returns.
add_control_point_locks_Held(property) ==
    IF property \in SettingNames
    THEN { << << "lock", property >>, << "lock", VideoMutex >>,
              << "unlock", VideoMutex >>, << "unlock", property >> >>,
           Locked(property) }
    ELSE { << >> }

\* add_control_point: the Setting's guard is a temporary of the statement
\* that validates the point and is dropped before video_mixing_state is
\* locked; a refused point returns in between, an unknown setting at once.
add_control_point_locks(property) ==
    IF property \in SettingNames
    THEN { Locked(property) \o Locked(VideoMutex), Locked(property) }
    ELSE { << >> }

\* remove_control_point.
remove_control_point_locks == { Locked(VideoMutex) }

\* add_slot_control_point, remove_slot_control_point: an early return, or
\* the mixing state of the property's media type.
slot_control_point_locks == { << >>, Locked(VideoMutex), Locked(AudioMutex) }

\* settings(): every Setting in turn, in the HashMap's order.
settings_locks ==
    { Concat([ i \in 1..Cardinality(SettingNames) |-> Locked(order[i]) ]) :
        order \in Orders(SettingNames) }

\* control_points().
control_points_locks == Locked(VideoMutex)

\* slot_control_points(): the second `let mixing_state` shadows the first,
\* whose guard stays alive until the function returns.
slot_control_points_locks ==
    << << "lock", VideoMutex >>, << "lock", AudioMutex >>,
       << "unlock", AudioMutex >>, << "unlock", VideoMutex >> >>

\* Handler<GetNodeInfoMessage>: settings(), control_points(), slot_settings(),
\* slot_control_points(), in the order of the fields.
get_node_info_locks ==
    { s \o control_points_locks \o slot_control_points_locks : s \in settings_locks }

\* The settings a SettingController can be made for.
ControllableSettings == { n \in SettingNames : create_settings[n].controllable }

\* One round of the loop of synchronize_mixer_controllers: synchronize writes
\* the controller's Setting under its mutex, then a width or height
\* controller has the Setting read again.
mixer_controller_locks(id) ==
    Locked(id) \o (IF id \in { "width", "height" } THEN Locked(id) ELSE << >>)

\* The compositor's samples-selected closure: video_mixing_state is locked
\* around update_video_mixing_state, which visits the mixer controllers
\* there are in the map's order.
video_callback_locks ==
    UNION { { << << "lock", VideoMutex >> >>
                \o Concat([ i \in 1..Cardinality(S) |-> mixer_controller_locks(order[i]) ])
                \o << << "unlock", VideoMutex >> >> : order \in Orders(S) } :
            S \in SUBSET ControllableSettings }

\* The audiomixer's samples-selected closure.
audio_callback_locks == { Locked(AudioMutex) }

\* What each thread can run.
Programs(t) ==
    CASE t = "actor" ->
            UNION { add_control_point_locks(property) : property \in MixerProps }
               \cup remove_control_point_locks
               \cup slot_control_point_locks
               \cup get_node_info_locks
      [] t = "compositor" -> video_callback_locks
      [] OTHER -> audio_callback_locks

AllPrograms == UNION { Programs(t) : t \in Threads }

\* Everything of the mixer but the mutexes.
dataVars == << state, settings, consumer_slots, video_pads, audio_pads,
               nextPad, upstream, video_mixing_state, audio_mixing_state, caps,
               base_plate_pad, timeout, reply, numPoints, lifeVars >>

\* A thread that runs nothing takes up a request or a callback.
Run(t, program) ==
    /\ running[t] = << >>
    /\ program \in Programs(t)
    /\ program # << >>
    /\ t = "actor" => actor = "Running"
    /\ running' = [ running EXCEPT ![t] = program ]
    /\ UNCHANGED << holder, dataVars >>
    /\ UNCHANGED vars

\* Mutex::lock returns once the mutex is free.
Lock(t) ==
    /\ running[t] # << >>
    /\ Head(running[t])[1] = "lock"
    /\ holder[Head(running[t])[2]] = "free"
    /\ holder' = [ holder EXCEPT ![Head(running[t])[2]] = t ]
    /\ running' = [ running EXCEPT ![t] = Tail(@) ]
    /\ UNCHANGED dataVars
    /\ UNCHANGED vars

\* The MutexGuard is dropped.
Unlock(t) ==
    /\ running[t] # << >>
    /\ Head(running[t])[1] = "unlock"
    /\ holder' = [ holder EXCEPT ![Head(running[t])[2]] = "free" ]
    /\ running' = [ running EXCEPT ![t] = Tail(@) ]
    /\ UNCHANGED dataVars
    /\ UNCHANGED vars

(* --------------------------- specification ---------------------------- *)

\* The slot surface of the actor: Connect, Disconnect and the slot control
\* point requests, against the lifecycle.
SlotNext ==
    \/ \E id \in SlotIds, node \in Nodes, config \in Configs : Connect(id, node, config)
    \/ \E id \in SlotIds : Disconnect(id)
    \/ \E id \in SlotIds, property \in SlotKeys, point \in ControlPoints :
          AddSlotControlPoint(id, property, point)
    \/ \E cid \in PointIds, id \in SlotIds, property \in SlotKeys :
          RemoveSlotControlPoint(cid, id, property)
    \/ Start(0, NoTime)
    \/ PipelineReady

\* The mixer constructed without a config; its output producers are idle.
SlotInit == MixerIdle /\ ProducerInit

SlotSpec == SlotInit /\ [][SlotNext]_allVars

\* The mixing callbacks against the mixer's own control points.
MixingNext ==
    \/ \E id \in SlotIds, node \in Nodes : Connect(id, node, << >>)
    \/ \E id \in SlotIds : Disconnect(id)
    \/ \E property \in MixerProps, point \in ControlPoints : AddControlPoint(property, point)
    \/ \E cid \in PointIds, property \in MixerProps : RemoveControlPoint(cid, property)
    \/ Start(0, NoTime)
    \/ PipelineReady
    \/ \E pts \in 0..MaxPts, ready \in SUBSET (1..MaxPads) : VideoSamplesSelected(pts, ready)

\* The mixer constructed with or without a config; its output producers are idle.
MixingInit == MixerInit /\ ProducerInit

MixingSpec == MixingInit /\ [][MixingNext]_allVars

\* Both samples-selected callbacks against the slots' control points.
CallbackNext ==
    \/ \E id \in SlotIds, node \in Nodes : Connect(id, node, << >>)
    \/ \E id \in SlotIds, property \in SlotKeys, point \in ControlPoints :
          AddSlotControlPoint(id, property, point)
    \/ Start(0, NoTime)
    \/ \E pts \in 0..MaxPts, ready \in SUBSET (1..MaxPads) : VideoSamplesSelected(pts, ready)
    \/ \E pts \in 0..MaxPts : AudioSamplesSelected(pts)

CallbackInit == MixerIdle /\ ProducerInit

CallbackSpec == CallbackInit /\ [][CallbackNext]_allVars

\* The settings from creation on, under the mixer's control points.
SettingsNext ==
    \/ \E property \in MixerProps, point \in ControlPoints : AddControlPoint(property, point)
    \/ Start(0, NoTime)
    \/ \E pts \in 0..MaxPts : VideoSamplesSelected(pts, {})

SettingsInit == (\E config \in MixerConfigs : MixerNew(config)) /\ ProducerInit

SettingsSpec == SettingsInit /\ [][SettingsNext]_allVars

\* The property strings RemoveControlPoint requests carry: the names of
\* settings, and strings that are keys of slot controllers.
RemovalProps ==
    MixerProps \cup { ControllerKey(id, p) : id \in SlotIds, p \in { "alpha", "volume" } }

\* Every control point request, on slots and on the mixer, against both
\* samples-selected callbacks.
ControlNext ==
    \/ \E id \in SlotIds, node \in Nodes : Connect(id, node, << >>)
    \/ \E id \in SlotIds, property \in SlotKeys, point \in ControlPoints :
          AddSlotControlPoint(id, property, point)
    \/ \E cid \in PointIds, id \in SlotIds, property \in SlotKeys :
          RemoveSlotControlPoint(cid, id, property)
    \/ \E property \in MixerProps, point \in ControlPoints : AddControlPoint(property, point)
    \/ \E cid \in PointIds, property \in RemovalProps : RemoveControlPoint(cid, property)
    \/ Start(0, NoTime)
    \/ \E pts \in 0..MaxPts, ready \in SUBSET (1..MaxPads) : VideoSamplesSelected(pts, ready)
    \/ \E pts \in 0..MaxPts : AudioSamplesSelected(pts)

ControlInit == MixerIdle /\ ProducerInit

ControlSpec == ControlInit /\ [][ControlNext]_allVars

\* Slot control points on several properties of slots whose ids and
\* property names overlap when they are put end to end.
KeyNext ==
    \/ \E id \in KeySlotIds, node \in Nodes : Connect(id, node, << >>)
    \/ \E id \in KeySlotIds : Disconnect(id)
    \/ \E id \in KeySlotIds, property \in KeyProps, point \in ControlPoints :
          AddKeyedControlPoint(id, property, point)
    \/ \E cid \in PointIds, id \in KeySlotIds, property \in KeyProps :
          RemoveSlotControlPoint(cid, id, property)

KeyInit == MixerIdle /\ ProducerInit

KeySpec == KeyInit /\ [][KeyNext]_allVars

\* The actor's control point and info handlers against the two callbacks,
\* step by step on the mutexes.
LockNext ==
    \/ \E t \in Threads, program \in AllPrograms : Run(t, program)
    \/ \E t \in Threads : Lock(t)
    \/ \E t \in Threads : Unlock(t)

LockInit == MixerIdle /\ ProducerInit

LockSpec == LockInit /\ [][LockNext]_allVars

\* The lifecycle of the actor: scheduling, the pipeline's events, Stop and
\* errors, with slots being connected and disconnected meanwhile.
LifecycleNext ==
    \/ \E cue_time \in CueTimes, end_time \in EndTimes : Start(cue_time, end_time)
    \/ \E cue_time \in CueTimes, end_time \in EndTimes : Schedule(cue_time, end_time)
    \/ CueReached
    \/ PipelineReady
    \/ EndReached
    \/ NullReached
    \/ Stop
    \/ \E message \in ErrorTexts : ErrorMessage(message)
    \/ stopped
    \/ GetProducer
    \/ \E id \in SlotIds, node \in Nodes : Connect(id, node, << >>)
    \/ \E id \in SlotIds : Disconnect(id)

LifecycleInit == MixerIdle /\ ProducerInit

LifecycleSpec == LifecycleInit /\ [][LifecycleNext]_allVars

\* The context of an actor that was told to stop runs Actor::stopped.
LifecycleFairSpec == LifecycleSpec /\ WF_allVars(stopped)

(* ====================================================================== *)
(*                             Mixer claims                               *)
(* ====================================================================== *)

\* Everything a request can change, its reply apart.
mixerState == << state, settings, consumer_slots, video_pads, audio_pads, nextPad,
                 upstream, video_mixing_state, audio_mixing_state, caps,
                 base_plate_pad, timeout, numPoints, actor, schedule, registry,
                 output >>

\* C11: a Connect whose link_id already names a slot fails and leaves the
\* mixer as it was: the existing slot, the set of slots, the request pads of
\* both mixer elements and the upstream producers' consumer bindings.
C11_DuplicateConnectRejected ==
    [][ \A id \in SlotIds, node \in Nodes, config \in Configs :
          (id \in DOMAIN consumer_slots /\ Connect(id, node, config))
          => /\ reply' = << "Connect", "Err" >>
             /\ UNCHANGED mixerState ]_allVars

\* A duplicate Connect was answered: the only pad ever requested is the one
\* of the existing slot, so the failed Connect requested none.
C11_Witness ==
    /\ reply = << "Connect", "Err" >>
    /\ nextPad = 1
    /\ \E id \in DOMAIN consumer_slots : consumer_slots[id].pad = 1

\* C12: a Connect that fails on a malformed config key or an invalid value
\* changes nothing: no slot is added, no additional sink pad stays requested
\* on the compositor or the audiomixer, and no pad property is left modified
\* by the earlier entries of the config.
C12_FailedConfigChangesNothing ==
    [][ \A id \in SlotIds, node \in Nodes, config \in Configs :
          ( /\ id \notin DOMAIN consumer_slots
            /\ ~ApplySlotConfig(config, NewVideoPad, NewAudioPad).ok
            /\ Connect(id, node, config) )
          => /\ reply' = << "Connect", "Err" >>
             /\ UNCHANGED << consumer_slots, video_pads, audio_pads >> ]_allVars

\* The slot's sub-graphs are built and its two sources are bound, under the
\* slot's link id, in the consumer maps of its upstream producers.
SlotLive(id) ==
    LET slot == consumer_slots[id]
        up == upstream[slot.node]
    IN  /\ slot.video_bin
        /\ slot.audio_bin
        /\ id \in DOMAIN up.video
        /\ up.video[id].appsrc = VideoAppsrc(slot.pad)
        /\ id \in DOMAIN up.audio
        /\ up.audio[id].appsrc = AudioAppsrc(slot.pad)

\* C13: whenever the mixer is Started, every slot of consumer_slots has both
\* sub-graphs and both sources attached under its link id to its upstream
\* producers, whatever state the slot's Connect was handled in.
C13_StartedSlotsLive ==
    state = "Started" => \A id \in DOMAIN consumer_slots : SlotLive(id)

\* C14: a Disconnect for a slot id that is not in consumer_slots fails and
\* leaves the slot map, every controller and every upstream consumer binding
\* as they were.
C14_UnknownDisconnectRejected ==
    [][ \A id \in SlotIds :
          (id \notin DOMAIN consumer_slots /\ Disconnect(id))
          => /\ reply' = << "Disconnect", "Err" >>
             /\ UNCHANGED mixerState ]_allVars

\* A Disconnect for an unknown id was answered while another slot, attached
\* upstream and with a pending control point, was there to be disturbed.
C14_Witness ==
    /\ reply = << "Disconnect", "Err" >>
    /\ \E id \in DOMAIN consumer_slots : SlotLive(id)
    /\ DOMAIN video_mixing_state.slot_controllers # {}

\* C15: after a Disconnect(B) that succeeds, GetNodeInfo lists B in none of
\* slots, slot_settings and slot_control_points, also when control points
\* were pending for B, and the entries of the other slots are as before.
C15_DisconnectedSlotUnlisted ==
    [][ \A id \in SlotIds :
          (id \in DOMAIN consumer_slots /\ Disconnect(id))
          => /\ reply' = << "Disconnect", "Ok" >>
             /\ id \notin DOMAIN InfoSlots'
             /\ id \notin DOMAIN InfoSlotSettings'
             /\ id \notin DOMAIN InfoSlotControlPoints'
             /\ \A other \in DOMAIN InfoSlots \ {id} :
                   other \in DOMAIN InfoSlots' /\ InfoSlots'[other] = InfoSlots[other]
             /\ \A other \in DOMAIN InfoSlotSettings \ {id} :
                   /\ other \in DOMAIN InfoSlotSettings'
                   /\ InfoSlotSettings'[other] = InfoSlotSettings[other]
             /\ \A other \in DOMAIN InfoSlotControlPoints \ {id} :
                   /\ other \in DOMAIN InfoSlotControlPoints'
                   /\ InfoSlotControlPoints'[other] = InfoSlotControlPoints[other] ]_allVars

\* The slot control point requests C17 is about: the slot id names no slot,
\* the property is not of the form video::<prop> or audio::<prop>, or the
\* point's value is a string, which no pad property of the model takes.
BadSlotPointRequest(id, property, point) ==
    \/ id \notin DOMAIN consumer_slots
    \/ property \in { "alpha", "text::alpha" }
    \/ point.value = Str

\* C17: AddSlotControlPoint with an unknown slot id, a malformed property or
\* a rejected value type returns an error, creates no controller and
\* enqueues the point in neither mixing state.
C17_BadSlotPointRejected ==
    [][ \A id \in SlotIds, property \in SlotKeys, point \in ControlPoints :
          (BadSlotPointRequest(id, property, point) /\ AddSlotControlPoint(id, property, point))
          => /\ reply' = << "AddSlotControlPoint", "Err" >>
             /\ UNCHANGED mixerState ]_allVars

\* A slot control point request was refused while a slot was connected and
\* no controller exists.
C17_Witness ==
    /\ reply = << "AddSlotControlPoint", "Err" >>
    /\ consumer_slots # << >>
    /\ video_mixing_state.slot_controllers = << >>
    /\ audio_mixing_state.slot_controllers = << >>

\* C16: once RemoveControlPoint(X, property) has been handled, GetNodeInfo's
\* control_points holds no point with id X for that property; in particular a
\* point added by AddControlPoint(property, X) and removed before it was
\* applied is not listed.
C16_RemovedPointUnlisted ==
    [][ \A cid \in PointIds, property \in MixerProps :
          RemoveControlPoint(cid, property)
          => \A name \in DOMAIN InfoControlPoints' \cap { property } :
                \A i \in 1..Len(InfoControlPoints'[name]) :
                   InfoControlPoints'[name][i].id # cid ]_allVars

\* C18: in a video callback of a base-plate-only period (no pad other than
\* sink_0 has a next sample), once pts exceeds the pts at which the period
\* began by strictly more than the fallback timeout the callback runs with,
\* sink_0's alpha is 1.0 and showing_base_plate is true; at a difference
\* equal to the timeout or less the base plate stays hidden.
C18_BasePlateShownAfterTimeout ==
    [][ \A pts \in 0..MaxPts :
          VideoSamplesSelected(pts, {})
          => LET since == video_mixing_state.base_plate_timeout
                 began == IF since = CLOCK_TIME_NONE THEN pts ELSE since
             IN  /\ pts - began > timeout
                    => /\ base_plate_pad'.alpha = 1
                       /\ video_mixing_state'.showing_base_plate
                 /\ (pts - began <= timeout /\ ~video_mixing_state.showing_base_plate)
                    => /\ base_plate_pad'.alpha = 0
                       /\ ~video_mixing_state'.showing_base_plate ]_allVars

\* The base plate is shown: the last callback came more than the timeout
\* after the base-plate-only period began.
C18_Witness ==
    /\ video_mixing_state.showing_base_plate
    /\ base_plate_pad.alpha = 1
    /\ video_mixing_state.last_pts - video_mixing_state.base_plate_timeout > timeout

\* C19: in a video callback where some pad other than sink_0 has a next
\* sample, by the end of the callback sink_0's alpha is 0.0,
\* showing_base_plate is false and base_plate_timeout is cleared.
C19_RealInputHidesBasePlate ==
    [][ \A pts \in 0..MaxPts, ready \in SUBSET (1..MaxPads) :
          (ready # {} /\ VideoSamplesSelected(pts, ready))
          => /\ base_plate_pad'.alpha = 0
             /\ ~video_mixing_state'.showing_base_plate
             /\ video_mixing_state'.base_plate_timeout = CLOCK_TIME_NONE ]_allVars

\* The last callback found a real input: it ran (last_pts is set) and left
\* base_plate_timeout cleared, which a base-plate-only callback never does.
C19_Witness ==
    /\ video_mixing_state.last_pts # CLOCK_TIME_NONE
    /\ video_mixing_state.base_plate_timeout = CLOCK_TIME_NONE
    /\ ~video_mixing_state.showing_base_plate
    /\ base_plate_pad.alpha = 0

\* C20: once a video callback has run, the width setting equals the output
\* capsfilter's width field and sink_0's width property, and likewise for
\* height, whatever control points on width and height were added.
C20_DimensionsInSync ==
    video_mixing_state.last_pts # CLOCK_TIME_NONE
    => /\ caps.width = SettingI32("width")
       /\ base_plate_pad.width = SettingI32("width")
       /\ caps.height = SettingI32("height")
       /\ base_plate_pad.height = SettingI32("height")

\* A control point has moved the width away from its default and a callback
\* has carried it into the caps and onto sink_0.
C20_Witness ==
    /\ video_mixing_state.last_pts # CLOCK_TIME_NONE
    /\ SettingI32("width") # DefaultWidth
    /\ caps.width = SettingI32("width")
    /\ base_plate_pad.width = SettingI32("width")

StateRank(s) ==
    CASE s = "Initial" -> 0
      [] s = "Starting" -> 1
      [] s = "Started" -> 2
      [] s = "Stopping" -> 3
      [] s = "Stopped" -> 4

\* C22: the mixer's lifecycle state only moves forward in the order Initial,
\* Starting, Started, Stopping, Stopped under any sequence of Start, Schedule,
\* Stop, pipeline-ready and error events, and once it is Stopped no step
\* changes it.
C22_LifecycleMovesForward ==
    [][ /\ StateRank(state') >= StateRank(state)
        /\ state = "Stopped" => state' = "Stopped" ]_allVars

\* The mixer went through every state and stopped.
C22_Witness ==
    /\ state = "Stopped"
    /\ actor = "Stopped"
    /\ schedule.end_time # NoTime

\* C23: Schedule(cue_time, end_time) succeeds only while the mixer is in
\* Initial or Starting; in Started, Stopping or Stopped it returns an error
\* and leaves state, cue_time and end_time unchanged.
C23_ScheduleOnlyBeforeStarted ==
    [][ \A cue_time \in CueTimes, end_time \in EndTimes :
            Schedule(cue_time, end_time) =>
                IF state \in { "Initial", "Starting" }
                THEN reply' = << "Schedule", "Ok" >>
                ELSE /\ reply' = << "Schedule", "Err" >>
                     /\ state' = state
                     /\ schedule'.cue_time = schedule.cue_time
                     /\ schedule'.end_time = schedule.end_time ]_allVars

\* A Schedule was refused after the end time had elapsed, and the times the
\* mixer was started with are still there.
C23_Witness ==
    /\ reply = << "Schedule", "Err" >>
    /\ state = "Stopping"
    /\ schedule.cue_time = 1
    /\ schedule.end_time = 2

\* The positions in the registry's mailbox of the messages of one type.
RegistryIndexes(log, type) == { i \in 1..Len(log) : log[i].type = type }

\* C24: when a pipeline error is handled in any state, the mixer emits
\* NodeStatus::Error carrying its id and the message, its lifecycle state
\* moves directly to Stopped, and the Error status is emitted before the
\* Stopped notification.
C24_ErrorStopsMixer ==
    [][ /\ \A message \in ErrorTexts :
              ErrorMessage(message) =>
                  /\ registry' = Append(registry, ErrorStatus(message))
                  /\ state' = "Stopped"
        /\ \A i \in RegistryIndexes(registry', "Error") :
           \A j \in RegistryIndexes(registry', "Stopped") : i < j ]_allVars

\* The Stopped notifications the registry has been sent for the mixer.
StoppedSent == Cardinality(RegistryIndexes(registry, "Stopped"))

\* C25: on every termination path (Stop request, end time elapsed, pipeline
\* error, or several of these one after another) exactly one Stopped
\* notification is sent to the node registry: none before the actor has
\* stopped, one once it has, and every actor told to stop gets there.
C25_ExactlyOneStopped ==
    /\ [](actor # "Stopped" => StoppedSent = 0)
    /\ [](actor = "Stopped" => StoppedSent = 1)
    /\ (actor = "Stopping" ~> StoppedSent = 1)

\* The mixer stopped on a pipeline error while its end time was elapsing.
C25_Witness ==
    /\ actor = "Stopped"
    /\ state = "Stopping"
    /\ RegistryIndexes(registry, "Error") # {}
    /\ StoppedSent = 1

\* The pair Handler<GetProducerMessage> answers with.
ProducerPair == << VideoProducer, AudioProducer >>

\* C26: the Stopped notification carries the mixer's output video producer in
\* its video_producer field and the mixer's output audio producer in its
\* audio_producer field, the same pair that GetProducer returns.
C26_StoppedCarriesBothProducers ==
    /\ reply[1] = "GetProducer" => reply[2] = ProducerPair
    /\ \A i \in RegistryIndexes(registry, "Stopped") :
          << registry[i].video_producer, registry[i].audio_producer >> = ProducerPair

\* C27: if Stop is handled while a Start with a future cue time is pending,
\* the pending start is cancelled: the mixer never subsequently enters
\* Starting, start_pipeline never runs (the capsfilter is never created, the
\* fallback timeout never captured) and forward() is never called on the
\* output producers (both keep discarding).
C27_StopCancelsPendingStart ==
    [][ ( /\ reply = << "Stop", "Ok" >>
          /\ state = "Initial"
          /\ schedule.pending )
        => /\ state' = "Initial"
           /\ ~video_mixing_state'.capsfilter
           /\ timeout' = CLOCK_TIME_NONE
           /\ output' = [ video |-> TRUE, audio |-> TRUE ] ]_allVars

\* Stop was handled with a start pending, and the actor has stopped since.
C27_Witness ==
    /\ reply = << "Stop", "Ok" >>
    /\ state = "Initial"
    /\ schedule.pending
    /\ schedule.cue_time = 1
    /\ actor = "Stopped"

\* A numeric setting whose current value lies within its range.
InRange(setting) ==
    setting.type = "number" =>
        (setting.min <= setting.current /\ setting.current <= setting.max)

\* A creation config with an entry whose key names no setting, whose value is
\* of the wrong type, or whose value is out of the setting's range.
BadMixerConfig(config) ==
    \E i \in 1..Len(config) :
        LET key == config[i][1]
            value == config[i][2]
        IN  \/ key \notin DOMAIN create_settings
            \/ value.type # create_settings[key].type
            \/ /\ value.type = "number"
               /\ (value.v < create_settings[key].min \/ value.v > create_settings[key].max)

\* C28: for every setting with a numeric spec, after mixer creation with any
\* config and after any sequence of control-point applications,
\* min <= current <= max; a creation config whose value is out of range, of
\* the wrong type, or whose key names no setting makes creation fail.
C28_SettingsStayInRange ==
    /\ actor # "None" => \A n \in DOMAIN settings : InRange(settings[n])
    /\ \A config \in MixerConfigs :
          BadMixerConfig(config) => ~ApplyMixerConfig(config, create_settings).ok

\* A mixer created with a width at the bottom of its range whose
\* fallback-timeout a control point has since moved.
C28_Witness ==
    /\ actor = "Running"
    /\ settings["width"].current = 1
    /\ settings["fallback-timeout"].current \notin { DefaultFallbackTimeout }
    /\ numPoints = 1
    /\ video_mixing_state.mixer_controllers = << >>

\* C29: when the mixer stops, by any path, every slot is drained:
\* consumer_slots is empty and, for every slot that existed, neither its
\* upstream video producer nor its upstream audio producer retains a consumer
\* bound under that slot's id.
C29_StoppedMixerIsDrained ==
    actor = "Stopped" =>
        /\ consumer_slots = << >>
        /\ \A n \in Nodes, id \in SlotIds :
              /\ id \notin DOMAIN upstream[n].video
              /\ id \notin DOMAIN upstream[n].audio

\* A started mixer with both request pads of two slots still in place has
\* stopped on an error.
C29_Witness ==
    /\ actor = "Stopped"
    /\ state = "Started"
    /\ RegistryIndexes(registry, "Error") # {}
    /\ DOMAIN video_pads = 1..MaxPads
    /\ DOMAIN audio_pads = 1..MaxPads

\* C30: a mixer created with no config has settings width = 1920,
\* height = 1080, sample-rate = 48000, fallback-image = "" and
\* fallback-timeout = 500, and each Setting's name field equals the key it is
\* stored under.  (No step of this specification writes a setting, and the
\* empty string is the string value 0 of the model.)
C30_DefaultSettings ==
    /\ settings["width"].current = 1920
    /\ settings["height"].current = 1080
    /\ settings["sample-rate"].current = 48000
    /\ settings["fallback-image"].type = "string"
    /\ settings["fallback-image"].current = 0
    /\ settings["fallback-timeout"].current = 500
    /\ \A n \in DOMAIN settings : settings[n].name = n

\* C31: whenever the base plate is marked as shown, the instant since which
\* it has been alone is known; and once the pipeline was started, the base
\* plate pad's alpha is 1 exactly when the base plate is marked as shown and
\* 0 otherwise.
C31_BasePlateStateConsistent ==
    /\ video_mixing_state.showing_base_plate =>
          video_mixing_state.base_plate_timeout # CLOCK_TIME_NONE
    /\ state # "Initial" =>
          base_plate_pad.alpha = IF video_mixing_state.showing_base_plate THEN 1 ELSE 0

\* The pipeline was started, the base plate stayed alone for longer than the
\* fallback timeout, and a callback has shown it.
C31_Witness ==
    /\ state # "Initial"
    /\ video_mixing_state.showing_base_plate
    /\ video_mixing_state.base_plate_timeout # CLOCK_TIME_NONE
    /\ base_plate_pad.alpha = 1

\* C38: the threshold of the video callback is the fallback-timeout setting
\* as it was when the pipeline was started: the start stores the setting's
\* value, nothing changes the stored value afterwards, and a callback that
\* finds the base plate alone and not shown shows it exactly when the time
\* since it has been alone exceeds the stored value, whatever the setting has
\* become meanwhile.
C38_ThresholdIsStartSnapshot ==
    [][ /\ (state = "Initial" /\ state' # "Initial") =>
              timeout' = settings["fallback-timeout"].current
        /\ state # "Initial" => timeout' = timeout
        /\ ( /\ video_mixing_state'.last_pts # video_mixing_state.last_pts
             /\ video_mixing_state.base_plate_timeout # CLOCK_TIME_NONE
             /\ video_mixing_state'.base_plate_timeout # CLOCK_TIME_NONE
             /\ ~video_mixing_state.showing_base_plate )
           => ( video_mixing_state'.showing_base_plate
                <=> video_mixing_state'.last_pts - video_mixing_state.base_plate_timeout
                       > timeout ) ]_allVars

\* A control point has changed the fallback-timeout setting after the start,
\* and a callback has shown the base plate since.
C38_Witness ==
    /\ state # "Initial"
    /\ settings["fallback-timeout"].current # timeout
    /\ video_mixing_state.mixer_controllers = << >>
    /\ video_mixing_state.showing_base_plate

\* The request pads held by the slots of consumer_slots.
SlotPads == { consumer_slots[id].pad : id \in DOMAIN consumer_slots }

\* C35: as long as the mixer runs, the sink pads requested from the
\* compositor and from the audiomixer are exactly the pads of the slots in
\* consumer_slots, whatever Connect and Disconnect requests were handled and
\* in whatever lifecycle state.
C35_RequestPadsAreSlotPads ==
    actor = "Running" =>
        /\ DOMAIN video_pads = SlotPads
        /\ DOMAIN audio_pads = SlotPads

\* The entries of a Connect config that set audio::volume.
VolumeEntries(config) == { i \in 1..Len(config) : config[i][1] = "audio::volume" }

\* C36: the volume a Connect's config asks for is the volume of the slot's
\* audiomixer pad once the slot's audio sub-graph exists.  A Connect handled
\* in Started builds the sub-graph itself, and the pad then has the config's
\* volume; a sub-graph built later, by start_pipeline, leaves the pad's volume
\* as the Connect's config had set it (no control point is applied before
\* the pipeline runs).
C36_ConfiguredVolumeApplied ==
    [][ \A id \in SlotIds :
          /\ \A node \in Nodes, config \in Configs :
                ( /\ Connect(id, node, config)
                  /\ reply' = << "Connect", "Ok" >>
                  /\ consumer_slots'[id].audio_bin
                  /\ VolumeEntries(config) # {} )
                => \A i \in VolumeEntries(config) :
                      audio_pads'[consumer_slots'[id].pad]["volume"] = config[i][2].v
          /\ ( /\ id \in DOMAIN consumer_slots
               /\ id \in DOMAIN consumer_slots'
               /\ ~consumer_slots[id].audio_bin
               /\ consumer_slots'[id].audio_bin )
             => audio_pads'[consumer_slots[id].pad]["volume"]
                   = audio_pads[consumer_slots[id].pad]["volume"] ]_allVars

\* The map `after` holds exactly the controllers of `before` whose
\* synchronize did not report done, each as its synchronize left it.
KeptNotDone(before, after) ==
    /\ DOMAIN after \subseteq DOMAIN before
    /\ \A k \in DOMAIN before :
          IF k \in DOMAIN after
          THEN /\ ~Done(after[k])
               /\ \E kind \in SyncKinds :
                     SyncEnabled(before[k], kind) /\ after[k] = SyncController(before[k], kind)
          ELSE \E kind \in SyncKinds :
                     SyncEnabled(before[k], kind) /\ Done(SyncController(before[k], kind))

\* C32: a samples-selected callback leaves in each controller map (video
\* slot controllers and mixer controllers for the compositor's callback,
\* audio slot controllers for the audiomixer's) exactly the controllers that
\* were in it and whose synchronize reported not done; and no other step
\* takes a controller out of a map, so a controller that a removal has
\* emptied stays until a callback finds it done.
C32_MapsKeepNotDone ==
    [][ /\ IF video_mixing_state'.last_pts # video_mixing_state.last_pts
           THEN /\ KeptNotDone(video_mixing_state.slot_controllers,
                               video_mixing_state'.slot_controllers)
                /\ KeptNotDone(video_mixing_state.mixer_controllers,
                               video_mixing_state'.mixer_controllers)
           ELSE /\ DOMAIN video_mixing_state.slot_controllers
                      \subseteq DOMAIN video_mixing_state'.slot_controllers
                /\ DOMAIN video_mixing_state.mixer_controllers
                      \subseteq DOMAIN video_mixing_state'.mixer_controllers
        /\ IF audio_mixing_state'.last_pts # audio_mixing_state.last_pts
           THEN KeptNotDone(audio_mixing_state.slot_controllers,
                            audio_mixing_state'.slot_controllers)
           ELSE DOMAIN audio_mixing_state.slot_controllers
                   \subseteq DOMAIN audio_mixing_state'.slot_controllers ]_allVars

\* A control point was accepted, both callbacks have run, and no map holds a
\* controller any more.
C32_Witness ==
    /\ numPoints > 0
    /\ video_mixing_state.last_pts # CLOCK_TIME_NONE
    /\ audio_mixing_state.last_pts # CLOCK_TIME_NONE
    /\ video_mixing_state.slot_controllers = << >>
    /\ video_mixing_state.mixer_controllers = << >>
    /\ audio_mixing_state.slot_controllers = << >>

\* C37: a RemoveControlPoint addressed to the mixer leaves the video and the
\* audio slot controllers as they were, whatever its property string and
\* controller id.
C37_RemoveControlPointSparesSlots ==
    [][ (\E cid \in PointIds, property \in RemovalProps : RemoveControlPoint(cid, property))
        => /\ video_mixing_state'.slot_controllers = video_mixing_state.slot_controllers
           /\ audio_mixing_state'.slot_controllers = audio_mixing_state.slot_controllers
      ]_allVars

\* The controllers of `controllers` that work for slot `slot_id` on property
\* `propname`.
ControllersOf(controllers, slot_id, propname) ==
    { k \in DOMAIN controllers :
         controllers[k].controllee_id = slot_id /\ controllers[k].propname = propname }

\* An accepted point for (slot_id, propname) went from `before` to `after`:
\* it is the last point of the one controller of that slot and property, and
\* every other controller is as it was.
EnqueuedOn(before, after, slot_id, propname, point) ==
    \E k \in DOMAIN after :
       /\ ControllersOf(after, slot_id, propname) = { k }
       /\ after[k].points # << >>
       /\ Last(after[k].points) = point
       /\ \A j \in DOMAIN after \ { k } : j \in DOMAIN before /\ after[j] = before[j]
       /\ \A j \in DOMAIN before : j \in DOMAIN after

\* C34: a control point accepted for slot s and video::p or audio::p is
\* enqueued on the controller of that media type whose controllee is s and
\* whose property is p, and on no other; in each map at most one controller
\* works for a given slot and property, so two different pairs never share
\* a controller.
C34_ControllerPerSlotAndProperty ==
    [][ /\ \A id \in KeySlotIds, property \in KeyProps, point \in ControlPoints :
              ( /\ AddKeyedControlPoint(id, property, point)
                /\ reply' = << "AddSlotControlPoint", "Ok" >> )
              => IF parse_slot_config_key(property).is_video
                 THEN /\ EnqueuedOn(video_mixing_state.slot_controllers,
                                    video_mixing_state'.slot_controllers,
                                    id, parse_slot_config_key(property).property, point)
                      /\ UNCHANGED audio_mixing_state
                 ELSE /\ EnqueuedOn(audio_mixing_state.slot_controllers,
                                    audio_mixing_state'.slot_controllers,
                                    id, parse_slot_config_key(property).property, point)
                      /\ UNCHANGED video_mixing_state
        /\ \A id \in KeySlotIds, propname \in { "alpha", "xpos", "pos", "volume" } :
              /\ Cardinality(ControllersOf(video_mixing_state'.slot_controllers,
                                           id, propname)) <= 1
              /\ Cardinality(ControllersOf(audio_mixing_state'.slot_controllers,
                                           id, propname)) <= 1 ]_allVars

\* Points were accepted for xpos of slot "a" and for alpha of slot "ax", and
\* each sits on a controller of its own.
C34_Witness ==
    /\ numPoints = MaxKeyPoints
    /\ ControllersOf(video_mixing_state.slot_controllers, "a", "xpos") # {}
    /\ ControllersOf(video_mixing_state.slot_controllers, "ax", "alpha") # {}
    /\ Cardinality(DOMAIN video_mixing_state.slot_controllers) = 2

\* A thread whose next step is to lock a mutex that some thread holds.
Waiting(t) ==
    /\ running[t] # << >>
    /\ Head(running[t])[1] = "lock"
    /\ holder[Head(running[t])[2]] # "free"

\* The thread that holds the mutex a waiting thread wants.
Awaited(t) == holder[Head(running[t])[2]]

\* Threads that wait for each other in a circle (a thread that waits for a
\* mutex it holds itself included).
CyclicWait ==
    \E t \in Threads :
       /\ Waiting(t)
       /\ \/ Awaited(t) = t
          \/ \E u \in Threads \ { t } :
                /\ Awaited(t) = u
                /\ Waiting(u)
                /\ \/ Awaited(u) = t
                   \/ \E v \in Threads \ { t, u } :
                         Awaited(u) = v /\ Waiting(v) /\ Awaited(v) \in { t, u }

\* C33: however the control point handlers and GetNodeInfo interleave with
\* the two samples-selected callbacks, no threads wait for each other in a
\* circle on the video mixing-state mutex, the audio mixing-state mutex and
\* the Setting mutexes, and the actor never goes for a Setting mutex while
\* it holds a mixing-state mutex.
C33_NoCyclicWait ==
    /\ ~CyclicWait
    /\ ~( /\ running["actor"] # << >>
          /\ Head(running["actor"])[1] = "lock"
          /\ Head(running["actor"])[2] \in SettingNames
          /\ \E m \in MixingMutexes : holder[m] = "actor" )

\* GetNodeInfo holds the video mixing state and waits for the audio mixing
\* state, which the audiomixer's callback holds, while the compositor's
\* callback waits for the video mixing state.
C33_Witness ==
    /\ holder[VideoMutex] = "actor"
    /\ holder[AudioMutex] = "audiomixer"
    /\ Waiting("actor")
    /\ Waiting("compositor")

====
